---------------------------- MODULE Spec2Model ----------------------------
(***************************************************************************)
(* A model of the fossil-time date library (src/code/logic/date.c) and of  *)
(* the calendar helpers it is cross-checked against                        *)
(* (src/code/logic/calendar.c, src/code/logic/holiday.c).                  *)
(*                                                                         *)
(* A caller builds a fossil_time_date_t value field by field (Init), then  *)
(* calls operations of the C API on it (the actions).  Every action        *)
(* records the value it was called on in `pre`, the name of the operation  *)
(* in `op`, the returned value in `ret` and the text left in the output    *)
(* buffer in `buf`; the arguments of the call other than the date, where   *)
(* it has any, are in `call`.  The span operations act on `span`.  `env`,  *)
(* `threads` and `g_holidays` are the process-wide state: the TZ setting,  *)
(* the threads inside a call, and the holiday registry of holiday.c.       *)
(*                                                                         *)
(* Representation notes.                                                   *)
(*  - TLC integers are 32 bits wide, an int64_t count of seconds is not.   *)
(*    An int64_t number of seconds is therefore kept as a record           *)
(*    [q, r] that stands for q * 86400 + r with 0 <= r < 86400 (Sec64).    *)
(*  - precision_mask is the integer value of the bit set; HasBit tests a   *)
(*    bit the way `mask & BIT` does.                                       *)
(*  - C integer division truncates toward zero (CDiv, CMod).               *)
(***************************************************************************)
EXTENDS Integers, Sequences, FiniteSets, TLC

VARIABLES dt, other, pre, op, ret, buf, call, span, env, threads, g_holidays

vars == <<dt, other, pre, op, ret, buf, call, span, env, threads, g_holidays>>

\* The value of `call` while no call with further arguments has been made.
NoCall == <<>>

\* The value of `span` where the caller holds no fossil_time_span_t.
NoSpan == <<>>

\* The values of `env` (the TZ variable of the process environment), of
\* `threads` (the threads inside a call) and of `g_holidays` (the holiday
\* registry) in the specifications that follow one caller through one call
\* that uses none of them.
NoEnv == <<>>
NoThreads == <<>>
NoRegistry == <<>>

-----------------------------------------------------------------------------
(* C arithmetic *)

Abs(x) == IF x < 0 THEN -x ELSE x

\* C99 `/` : truncation toward zero.
CDiv(a, b) == IF (a >= 0) = (b > 0) THEN Abs(a) \div Abs(b) ELSE -(Abs(a) \div Abs(b))

\* C99 `%` : the remainder has the sign of the dividend.
CMod(a, b) == a - b * CDiv(a, b)

SecondsPerDay == 86400

\* An int64_t count of seconds q * 86400 + r, carried into canonical form.
Sec64(q, r) == [q |-> q + (r \div SecondsPerDay), r |-> r % SecondsPerDay]

-----------------------------------------------------------------------------
(* Precision mask bits *)

FOSSIL_TIME_PRECISION_YEAR == 1
FOSSIL_TIME_PRECISION_MONTH == 2
FOSSIL_TIME_PRECISION_DAY == 4
FOSSIL_TIME_PRECISION_HOUR == 8
FOSSIL_TIME_PRECISION_MINUTE == 16
FOSSIL_TIME_PRECISION_SECOND == 32
FOSSIL_TIME_PRECISION_MILLI == 64
FOSSIL_TIME_PRECISION_MICRO == 128
FOSSIL_TIME_PRECISION_NANO == 256
FOSSIL_TIME_PRECISION_PICO == 512
FOSSIL_TIME_PRECISION_FEMTO == 1024
FOSSIL_TIME_PRECISION_ATTO == 2048
FOSSIL_TIME_PRECISION_ZEPTO == 4096
FOSSIL_TIME_PRECISION_YOCTO == 8192

\* `mask & bit` is non-zero (bit is a power of two).
HasBit(mask, bit) == (mask \div bit) % 2 = 1

MASK_YMD == FOSSIL_TIME_PRECISION_YEAR + FOSSIL_TIME_PRECISION_MONTH
            + FOSSIL_TIME_PRECISION_DAY

MASK_HMS == FOSSIL_TIME_PRECISION_HOUR + FOSSIL_TIME_PRECISION_MINUTE
            + FOSSIL_TIME_PRECISION_SECOND

MASK_YMDHMS == MASK_YMD + MASK_HMS

-----------------------------------------------------------------------------
(* fossil_time_date_t *)

\* make_date of the test suites: memset to zero, then the named fields.
make_date(y, mo, d, h, mi, s, ms, us, ns, mask) ==
    [year |-> y, month |-> mo, day |-> d,
     hour |-> h, minute |-> mi, second |-> s,
     millisecond |-> ms, microsecond |-> us, nanosecond |-> ns,
     picosecond |-> 0, femtosecond |-> 0, attosecond |-> 0,
     zeptosecond |-> 0, yoctosecond |-> 0,
     weekday |-> 0, yearday |-> 0, tz_offset_min |-> 0,
     precision_mask |-> mask]

\* memset(dt, 0, sizeof(*dt))
ZeroDate == make_date(0, 0, 0, 0, 0, 0, 0, 0, 0, 0)

-----------------------------------------------------------------------------
(* date.c helpers *)

is_leap(year) ==
    (CMod(year, 4) = 0 /\ CMod(year, 100) # 0) \/ CMod(year, 400) = 0

DaysTable == <<31, 28, 31, 30, 31, 30, 31, 31, 30, 31, 30, 31>>

\* Mutant: the February leap-day test is lost.
days_in_month_no_leap(year, month) ==
    IF month < 1 \/ month > 12 THEN 0 ELSE DaysTable[month]

days_in_month(year, month) ==
    IF month = 2 /\ is_leap(year) THEN 29
    ELSE IF month < 1 \/ month > 12 THEN 0
    ELSE DaysTable[month]

\* Mutant: the century correction (yoe / 100) is lost.
days_from_civil_no_century(y0, m, d) ==
    LET y   == y0 - (IF m <= 2 THEN 1 ELSE 0)
        era == CDiv(IF y >= 0 THEN y ELSE y - 399, 400)
        yoe == y - era * 400
        doy == ((153 * (m + (IF m > 2 THEN -3 ELSE 9)) + 2) \div 5) + d - 1
        doe == yoe * 365 + (yoe \div 4) + doy
    IN  era * 146097 + doe - 719468

\* y is int64_t, m and d are unsigned.  The model applies it to m, d >= 0
\* with d >= 1 when m = 3, where doy does not wrap below zero; for m > 2 the
\* unsigned sum m + (unsigned)(-3) wraps to m - 3.
fossil_time_days_from_civil(y0, m, d) ==
    LET y   == y0 - (IF m <= 2 THEN 1 ELSE 0)
        era == CDiv(IF y >= 0 THEN y ELSE y - 399, 400)
        yoe == y - era * 400
        doy == ((153 * (m + (IF m > 2 THEN -3 ELSE 9)) + 2) \div 5) + d - 1
        doe == yoe * 365 + (yoe \div 4) - (yoe \div 100) + doy
    IN  era * 146097 + doe - 719468

\* struct tm as filled by the callers: tm_year = year - 1900, tm_mon = month - 1.
tm_of(d) ==
    [tm_year |-> d.year - 1900, tm_mon |-> d.month - 1, tm_mday |-> d.day,
     tm_hour |-> d.hour, tm_min |-> d.minute, tm_sec |-> d.second]

fossil_time_tm_to_epoch_utc(tm) ==
    LET days == fossil_time_days_from_civil(tm.tm_year + 1900, tm.tm_mon + 1, tm.tm_mday)
    IN  Sec64(days, tm.tm_hour * 3600 + tm.tm_min * 60 + tm.tm_sec)


-----------------------------------------------------------------------------
(* The C library calls the code makes, modelled by what POSIX says they do *)
(* for a 64-bit time_t.                                                    *)

\* Day of the year, 0-based (tm_yday), of a civil date.
RECURSIVE DaysBeforeMonth(_, _)
DaysBeforeMonth(year, month) ==
    IF month <= 1 THEN 0
    ELSE DaysBeforeMonth(year, month - 1) + days_in_month(year, month - 1)

\* gmtime_r(&t, &tm): the broken-down UTC time of t seconds after the epoch.
gmtime_r(t) ==
    LET z    == t.q + 719468
        era  == z \div 146097
        doe  == z - era * 146097
        yoe  == (doe - (doe \div 1460) + (doe \div 36524) - (doe \div 146096)) \div 365
        doy  == doe - (365 * yoe + (yoe \div 4) - (yoe \div 100))
        mp   == (5 * doy + 2) \div 153
        mday == doy - ((153 * mp + 2) \div 5) + 1
        mon  == IF mp < 10 THEN mp + 3 ELSE mp - 9
        year == yoe + era * 400 + (IF mon <= 2 THEN 1 ELSE 0)
    IN  [tm_year |-> year - 1900, tm_mon |-> mon - 1, tm_mday |-> mday,
         tm_hour |-> t.r \div 3600, tm_min |-> (t.r % 3600) \div 60,
         tm_sec |-> t.r % 60,
         tm_wday |-> (t.q + 4) % 7,
         tm_yday |-> DaysBeforeMonth(year, mon) + mday - 1]

\* mktime(tm) with TZ forced to UTC: months outside 0..11 carry into the
\* year, and the day, hour, minute and second counts are added linearly.
mktime_utc(tm) ==
    LET year == tm.tm_year + 1900 + (tm.tm_mon \div 12)
        mon  == (tm.tm_mon % 12) + 1
        py   == year - 1
        days == 365 * py + (py \div 4) - (py \div 100) + (py \div 400)
                + DaysBeforeMonth(year, mon) + tm.tm_mday - 1 - 719162
    IN  Sec64(days, tm.tm_hour * 3600 + tm.tm_min * 60 + tm.tm_sec)

\* POSIX branch: TZ is set to "UTC", mktime runs, TZ is put back.
fossil_time_internal_timegm(tm) == mktime_utc(tm)

-----------------------------------------------------------------------------
(* Core API of date.c as functions of the date value *)

fossil_time_date_validate(d) ==
    IF HasBit(d.precision_mask, FOSSIL_TIME_PRECISION_MONTH)
       /\ (d.month < 1 \/ d.month > 12) THEN 0
    ELSE IF HasBit(d.precision_mask, FOSSIL_TIME_PRECISION_DAY)
       /\ (d.day < 1 \/ d.day > days_in_month(d.year, d.month)) THEN 0
    ELSE IF HasBit(d.precision_mask, FOSSIL_TIME_PRECISION_HOUR)
       /\ (d.hour < 0 \/ d.hour > 23) THEN 0
    ELSE IF HasBit(d.precision_mask, FOSSIL_TIME_PRECISION_MINUTE)
       /\ (d.minute < 0 \/ d.minute > 59) THEN 0
    ELSE IF HasBit(d.precision_mask, FOSSIL_TIME_PRECISION_SECOND)
       /\ (d.second < 0 \/ d.second > 60) THEN 0
    ELSE 1

\* Mutant: the fields mktime has brought into range are stored back.
normalize_storing_canonical_fields(d) ==
    LET t  == fossil_time_internal_timegm(tm_of(d))
        tm == gmtime_r(t)
    IN  [d EXCEPT !.year = tm.tm_year + 1900, !.month = tm.tm_mon + 1,
                  !.day = tm.tm_mday, !.hour = tm.tm_hour, !.minute = tm.tm_min,
                  !.second = tm.tm_sec,
                  !.weekday = tm.tm_wday, !.yearday = tm.tm_yday + 1]

fossil_time_date_normalize(d) ==
    LET t  == fossil_time_internal_timegm(tm_of(d))
        tm == gmtime_r(t)
    IN  [d EXCEPT !.weekday = tm.tm_wday, !.yearday = tm.tm_yday + 1]

\* Mutant: the last CMP line, CMP(nanosecond), is lost.
compare_without_nanosecond(a, b) ==
    LET CMP(x, y, rest) == IF x # y THEN (IF x < y THEN -1 ELSE 1) ELSE rest
    IN  CMP(a.year, b.year,
        CMP(a.month, b.month,
        CMP(a.day, b.day,
        CMP(a.hour, b.hour,
        CMP(a.minute, b.minute,
        CMP(a.second, b.second,
        CMP(a.millisecond, b.millisecond,
        CMP(a.microsecond, b.microsecond, 0))))))))

\* #define CMP(field) if (a->field != b->field) return (a->field < b->field ? -1 : 1)
fossil_time_date_compare(a, b) ==
    LET CMP(x, y, rest) == IF x # y THEN (IF x < y THEN -1 ELSE 1) ELSE rest
    IN  CMP(a.year, b.year,
        CMP(a.month, b.month,
        CMP(a.day, b.day,
        CMP(a.hour, b.hour,
        CMP(a.minute, b.minute,
        CMP(a.second, b.second,
        CMP(a.millisecond, b.millisecond,
        CMP(a.microsecond, b.microsecond,
        CMP(a.nanosecond, b.nanosecond, 0)))))))))

\* Mutant: the zone offset is added instead of subtracted.
to_unix_seconds_adds_offset(d) ==
    LET seconds == fossil_time_tm_to_epoch_utc(tm_of(d))
    IN  Sec64(seconds.q, seconds.r + d.tz_offset_min * 60)

fossil_time_date_to_unix_seconds(d) ==
    LET seconds == fossil_time_tm_to_epoch_utc(tm_of(d))
    IN  Sec64(seconds.q, seconds.r - d.tz_offset_min * 60)

fossil_time_date_from_unix_seconds(seconds) ==
    LET tm == gmtime_r(seconds)
    IN  [ZeroDate EXCEPT
           !.year = tm.tm_year + 1900, !.month = tm.tm_mon + 1,
           !.day = tm.tm_mday, !.hour = tm.tm_hour, !.minute = tm.tm_min,
           !.second = tm.tm_sec, !.weekday = tm.tm_wday,
           !.yearday = tm.tm_yday + 1, !.tz_offset_min = 0,
           !.precision_mask = MASK_YMDHMS]


-----------------------------------------------------------------------------
(* The operations as actions.  A caller calls one operation on the value   *)
(* it built; from_unix_seconds is also called on the result of             *)
(* to_unix_seconds (the round trip of the test suites).                    *)

Validate ==
    /\ op = "init"
    /\ op' = "validate"
    /\ pre' = dt
    /\ ret' = fossil_time_date_validate(dt)
    /\ UNCHANGED <<dt, other, buf, call, span, env, threads, g_holidays>>

Normalize ==
    /\ op = "init"
    /\ op' = "normalize"
    /\ pre' = dt
    /\ dt' = fossil_time_date_normalize(dt)
    /\ UNCHANGED <<other, ret, buf, call, span, env, threads, g_holidays>>

-----------------------------------------------------------------------------
(* Spec: dates built field by field, in and out of range, under every mask *)
(* of the six calendar and clock bits; then validate or normalize.         *)

\* How far past the ends of its legal range a field value is drawn.
Slack == 1

MaskYears == {1900, 2000, 2023, 2024}
MonthVals == ((1 - Slack) .. 2) \cup {4} \cup (12 .. (12 + Slack))
DayVals == ((1 - Slack) .. 1) \cup (28 .. (31 + Slack))
HourVals == {-Slack, 23, 23 + Slack}
MinuteVals == {59, 59 + Slack}
SecondVals == {60, 60 + Slack}
MaskVals == 0 .. MASK_YMDHMS

Init ==
    /\ \E y \in MaskYears, mo \in MonthVals, d \in DayVals, h \in HourVals,
          mi \in MinuteVals, s \in SecondVals, mask \in MaskVals :
          dt = make_date(y, mo, d, h, mi, s, 0, 0, 0, mask)
    /\ other = ZeroDate
    /\ pre = ZeroDate
    /\ op = "init"
    /\ ret = 0
    /\ buf = ""
    /\ env = NoEnv /\ threads = NoThreads /\ g_holidays = NoRegistry
    /\ call = NoCall
    /\ span = NoSpan

Next == Validate \/ Normalize

Spec == Init /\ [][Next]_vars

\* SpecNormalize: dates whose every field holds a value of its own, in and
\* out of range, under masks with and without sub-second bits; then
\* normalize.
FrameYears == {1999, 2024}
FrameMonths == {0, 2, 13}
FrameDays == {0, 29, 32}
FrameHours == {-1, 24}
FrameSeconds == {-1, 30, 61}
FrameMasks == {0, MASK_YMDHMS, MASK_YMDHMS + FOSSIL_TIME_PRECISION_MILLI}

InitNormalize ==
    /\ \E y \in FrameYears, mo \in FrameMonths, d \in FrameDays, h \in FrameHours,
          s \in FrameSeconds, mask \in FrameMasks :
          dt = [make_date(y, mo, d, h, 60, s, 7, 8, 9, mask) EXCEPT
                   !.picosecond = 1, !.femtosecond = 2, !.attosecond = 3,
                   !.zeptosecond = 4, !.yoctosecond = 5,
                   !.weekday = -1, !.yearday = -1, !.tz_offset_min = -300]
    /\ other = ZeroDate
    /\ pre = ZeroDate
    /\ op = "init"
    /\ ret = 0
    /\ buf = ""
    /\ env = NoEnv /\ threads = NoThreads /\ g_holidays = NoRegistry
    /\ call = NoCall
    /\ span = NoSpan

NextNormalize == Normalize

SpecNormalize == InitNormalize /\ [][NextNormalize]_vars


-----------------------------------------------------------------------------
(* SpecEpoch: every calendar day of a set of years, at a few times of day  *)
(* and zone offsets, converted to epoch seconds and back.                  *)

ToUnixSeconds ==
    /\ op = "init"
    /\ op' = "to_unix"
    /\ pre' = dt
    /\ ret' = fossil_time_date_to_unix_seconds(dt)
    /\ UNCHANGED <<dt, other, buf, call, span, env, threads, g_holidays>>

\* from_unix_seconds(to_unix_seconds(dt), &dt2); pre keeps the original.
FromUnixSeconds ==
    /\ op = "to_unix"
    /\ op' = "from_unix"
    /\ dt' = fossil_time_date_from_unix_seconds(ret)
    /\ UNCHANGED <<other, pre, ret, buf, call, span, env, threads, g_holidays>>

\* Years on each side of 1970 that are walked day by day.
EpochSpan == 2

EpochYears == {-401, -400, -1, 0, 1, 4, 100, 400, 1600, 1899, 1900, 1901,
               2000, 2023, 2024, 2038, 2100, 9999}
              \cup ((1970 - EpochSpan) .. (1970 + EpochSpan))
EpochTimes == {<<0, 0, 0>>, <<12, 34, 56>>, <<23, 59, 59>>, <<23, 59, 60>>}
EpochOffsets == {0, 330, -480}

InitEpoch ==
    /\ \E y \in EpochYears, mo \in 1 .. 12, t \in EpochTimes, tz \in EpochOffsets :
          \E d \in 1 .. days_in_month(y, mo) :
             dt = [make_date(y, mo, d, t[1], t[2], t[3], 0, 0, 0, MASK_YMDHMS)
                     EXCEPT !.tz_offset_min = tz]
    /\ other = ZeroDate
    /\ pre = ZeroDate
    /\ op = "init"
    /\ ret = 0
    /\ buf = ""
    /\ env = NoEnv /\ threads = NoThreads /\ g_holidays = NoRegistry
    /\ call = NoCall
    /\ span = NoSpan

NextEpoch == ToUnixSeconds \/ FromUnixSeconds

SpecEpoch == InitEpoch /\ [][NextEpoch]_vars

\* SpecYearOnly: dates of which only the year, or the year and a month of
\* January or February, are known, every field below holding zero, converted
\* to epoch seconds.
\* Years on each side of 1970 that are converted.
YearOnlySpan == 60

InitYearOnly ==
    /\ \E y \in (1970 - YearOnlySpan) .. (1970 + YearOnlySpan), mo \in 0 .. 2 :
          dt = make_date(y, mo, 0, 0, 0, 0, 0, 0, 0,
                         IF mo = 0 THEN FOSSIL_TIME_PRECISION_YEAR
                         ELSE FOSSIL_TIME_PRECISION_YEAR + FOSSIL_TIME_PRECISION_MONTH)
    /\ other = ZeroDate
    /\ pre = ZeroDate
    /\ op = "init"
    /\ ret = 0
    /\ buf = ""
    /\ env = NoEnv /\ threads = NoThreads /\ g_holidays = NoRegistry
    /\ call = NoCall
    /\ span = NoSpan

NextYearOnly == ToUnixSeconds

SpecYearOnly == InitYearOnly /\ [][NextYearOnly]_vars

-----------------------------------------------------------------------------
(* Text: printf conversions and snprintf into a bounded buffer *)

Min(a, b) == IF a <= b THEN a ELSE b

Digit(n) == SubSeq("0123456789", n + 1, n + 1)

\* "%d" of a non-negative int.
RECURSIVE Dec(_)
Dec(n) == IF n < 10 THEN Digit(n) ELSE Dec(n \div 10) \o Digit(n % 10)

RECURSIVE ZeroPad(_, _)
ZeroPad(s, w) == IF Len(s) >= w THEN s ELSE ZeroPad("0" \o s, w)

\* Mutant: "%d", the zero flag and the width are lost.
printf_d(w, n) == IF n < 0 THEN "-" \o Dec(-n) ELSE Dec(n)

\* "%0wd": the sign counts in the width, zeros fill after it.
printf_0d(w, n) ==
    IF n < 0 THEN "-" \o ZeroPad(Dec(-n), w - 1) ELSE ZeroPad(Dec(n), w)

\* A buffer being filled: the text it holds up to its terminator, the running
\* offset n, and whether a write has left the buffer.
Filling(text) == [text |-> text, n |-> 0, oob |-> FALSE]

\* n += snprintf(buffer + n, size - n, "%s", s) with size_t n and size.
\*   n < size: at most size - n - 1 characters and the terminator are stored
\*             at offset n (the text so far ends exactly there);
\*   n = size: the limit is 0, nothing is stored;
\*   n > size: size - n wraps around to a huge limit and the text is stored
\*             at buffer + n, outside the buffer.
snprintf_at(b, size, s) ==
    IF b.n < size
    THEN [text |-> SubSeq(b.text, 1, b.n) \o SubSeq(s, 1, Min(Len(s), size - b.n - 1)),
          n |-> b.n + Len(s), oob |-> b.oob]
    ELSE IF b.n = size
    THEN [b EXCEPT !.n = b.n + Len(s)]
    ELSE [b EXCEPT !.n = b.n + Len(s), !.oob = TRUE]

-----------------------------------------------------------------------------
(* fossil_time_date_format (date.c) *)

\* sizeof(subsec)
SubsecSize == 32

\* The ladder fields in the order the sub-second digits are appended.
SubsecLadder(d) ==
    << <<FOSSIL_TIME_PRECISION_MILLI, d.millisecond>>,
       <<FOSSIL_TIME_PRECISION_MICRO, d.microsecond>>,
       <<FOSSIL_TIME_PRECISION_NANO,  d.nanosecond>>,
       <<FOSSIL_TIME_PRECISION_PICO,  d.picosecond>>,
       <<FOSSIL_TIME_PRECISION_FEMTO, d.femtosecond>>,
       <<FOSSIL_TIME_PRECISION_ATTO,  d.attosecond>>,
       <<FOSSIL_TIME_PRECISION_ZEPTO, d.zeptosecond>>,
       <<FOSSIL_TIME_PRECISION_YOCTO, d.yoctosecond>> >>

\* subsec after the first k `pos += snprintf(subsec + pos, ...)' lines.
RECURSIVE SubsecFill(_, _)
SubsecFill(d, k) ==
    IF k = 0 THEN Filling("")
    ELSE LET b == SubsecFill(d, k - 1)
             e == SubsecLadder(d)[k]
         IN  IF HasBit(d.precision_mask, e[1])
             THEN snprintf_at(b, SubsecSize, printf_0d(3, e[2]))
             ELSE b

\* while (pos > 0 && subsec[pos - 1] == '0') pos--;
RECURSIVE TrimZeros(_, _)
TrimZeros(text, pos) ==
    IF pos > 0 /\ pos <= Len(text) /\ SubSeq(text, pos, pos) = "0"
    THEN TrimZeros(text, pos - 1)
    ELSE pos

\* The buffer, the returned length and whether memory outside a buffer was
\* touched.  `held' is the text the buffer holds before the call.
fossil_time_date_format(d, held, buffer_size, format_id) ==
    IF buffer_size = 0 THEN Filling(held)
    ELSE
    LET has(bit) == HasBit(d.precision_mask, bit)
        b0 == Filling(held)
        b1 == IF has(FOSSIL_TIME_PRECISION_YEAR)
              THEN snprintf_at(b0, buffer_size, printf_0d(4, d.year)) ELSE b0
        b2 == IF has(FOSSIL_TIME_PRECISION_MONTH)
              THEN snprintf_at(b1, buffer_size, "-" \o printf_0d(2, d.month)) ELSE b1
        b3 == IF has(FOSSIL_TIME_PRECISION_DAY)
              THEN snprintf_at(b2, buffer_size, "-" \o printf_0d(2, d.day)) ELSE b2
        h  == IF has(FOSSIL_TIME_PRECISION_HOUR) THEN d.hour ELSE 0
        m  == IF has(FOSSIL_TIME_PRECISION_MINUTE) THEN d.minute ELSE 0
        s  == IF has(FOSSIL_TIME_PRECISION_SECOND) THEN d.second ELSE 0
        b4 == snprintf_at(b3, buffer_size,
                  "T" \o printf_0d(2, h) \o ":" \o printf_0d(2, m)
                      \o ":" \o printf_0d(2, s))
        sub == SubsecFill(d, 8)
        pos == TrimZeros(sub.text, sub.n)
        \* reading subsec past its terminator
        stray == sub.oob \/ sub.n > Len(sub.text) + 1
        b5 == IF pos > 0
              THEN snprintf_at(b4, buffer_size,
                       "." \o SubSeq(sub.text, 1, Min(pos, Len(sub.text))))
              ELSE b4
        b6 == snprintf_at(b5, buffer_size, "Z")
        b7 == IF has(FOSSIL_TIME_PRECISION_HOUR) \/ has(FOSSIL_TIME_PRECISION_MINUTE)
                 \/ has(FOSSIL_TIME_PRECISION_SECOND)
              THEN [b6 EXCEPT !.oob = b6.oob \/ stray]
              ELSE b3
    IN  IF format_id = "log" /\ b7.n = 0
        THEN snprintf_at(b0, buffer_size,
                 printf_0d(4, d.year) \o printf_0d(2, d.month)
                 \o printf_0d(2, d.day) \o "-" \o printf_0d(2, d.hour)
                 \o printf_0d(2, d.minute) \o printf_0d(2, d.second))
        ELSE b7

\* The text the caller's buffer holds before the call (it fits every buffer).
StaleText == "xx"

FormatIds == {"iso", "log", "unknown"}
FormatSizes == {3, 11, 64}

\* A write outside the buffer is undefined behaviour: the call may return
\* what the arithmetic gives or fail.
Format ==
    /\ op = "init"
    /\ \E f \in FormatIds, sz \in FormatSizes :
          LET r == fossil_time_date_format(dt, buf, sz, f)
          IN  /\ call' = [format_id |-> f, buffer_size |-> sz, ub |-> r.oob]
              /\ IF r.oob
                 THEN ret' \in {r.n, -1} /\ buf' = r.text
                 ELSE ret' = r.n /\ buf' = r.text
    /\ op' = "format"
    /\ pre' = dt
    /\ UNCHANGED <<dt, other, span, env, threads, g_holidays>>

FormatYears == {-1, 7, 2024}
FormatMasks ==
    (0 .. (MASK_YMDHMS + FOSSIL_TIME_PRECISION_MILLI))
    \cup {MASK_YMDHMS + FOSSIL_TIME_PRECISION_MICRO,
          MASK_YMDHMS + FOSSIL_TIME_PRECISION_MILLI + FOSSIL_TIME_PRECISION_MICRO}

InitFormat ==
    /\ \E y \in FormatYears, mo \in {6, 12}, h \in {0, 12}, s \in {5, 56},
          ms \in {0, 120}, mask \in FormatMasks :
          dt = make_date(y, mo, 1, h, 34, s, ms, 500, 0, mask)
    /\ other = ZeroDate
    /\ pre = ZeroDate
    /\ op = "init"
    /\ ret = 0
    /\ buf = StaleText
    /\ env = NoEnv /\ threads = NoThreads /\ g_holidays = NoRegistry
    /\ call = NoCall
    /\ span = NoSpan

NextFormat == Format

SpecFormat == InitFormat /\ [][NextFormat]_vars

-----------------------------------------------------------------------------
(* Calendar module (calendar.c) and holiday module (holiday.c): weekday by *)
(* Zeller's congruence, day of year, derived fields.                       *)

days_in_month_internal(year, month) ==
    IF month < 1 \/ month > 12 THEN 0
    ELSE IF month = 2 /\ is_leap(year) THEN 29
    ELSE DaysTable[month]

\* Mutant: the year is not stepped back for January and February.
compute_weekday_same_year(year, month, day) ==
    LET m == IF month < 3 THEN month + 12 ELSE month
        y == year
        k == CMod(y, 100)
        j == CDiv(y, 100)
        h == CMod(day + CDiv(13 * (m + 1), 5) + k + CDiv(k, 4) + CDiv(j, 4) + 5 * j, 7)
    IN  CMod(h + 6, 7)

compute_weekday(year, month, day) ==
    LET m == IF month < 3 THEN month + 12 ELSE month
        y == IF month < 3 THEN year - 1 ELSE year
        k == CMod(y, 100)
        j == CDiv(y, 100)
        h == CMod(day + CDiv(13 * (m + 1), 5) + k + CDiv(k, 4) + CDiv(j, 4) + 5 * j, 7)
    IN  CMod(h + 6, 7)

RECURSIVE compute_yearday(_, _, _)
compute_yearday(year, month, day) ==
    IF month <= 1 THEN day
    ELSE days_in_month_internal(year, month - 1) + compute_yearday(year, month - 1, day)

fossil_time_calendar_compute_derived(d) ==
    IF /\ HasBit(d.precision_mask, FOSSIL_TIME_PRECISION_YEAR)
       /\ HasBit(d.precision_mask, FOSSIL_TIME_PRECISION_MONTH)
       /\ HasBit(d.precision_mask, FOSSIL_TIME_PRECISION_DAY)
    THEN [d EXCEPT !.weekday = compute_weekday(d.year, d.month, d.day),
                   !.yearday = compute_yearday(d.year, d.month, d.day)]
    ELSE [d EXCEPT !.weekday = -1, !.yearday = -1]

weekday_of(y0, m0, d) ==
    LET m == IF m0 < 3 THEN m0 + 12 ELSE m0
        y == IF m0 < 3 THEN y0 - 1 ELSE y0
        K == CMod(y, 100)
        J == CDiv(y, 100)
        h == CMod(d + CDiv(13 * (m + 1), 5) + K + CDiv(K, 4) + CDiv(J, 4) + 5 * J, 7)
    IN  CMod(h + 6, 7)

set_date(y, m, d) ==
    [ZeroDate EXCEPT !.year = y, !.month = m, !.day = d,
                     !.weekday = weekday_of(y, m, d),
                     !.precision_mask = MASK_YMD]

CalendarComputeDerived ==
    /\ op = "init"
    /\ op' = "compute_derived"
    /\ pre' = dt
    /\ dt' = fossil_time_calendar_compute_derived(dt)
    /\ UNCHANGED <<other, ret, buf, call, span, env, threads, g_holidays>>

\* set_date(out, y, m, d): out is `other', the arguments are dt's civil date.
HolidaySetDate ==
    /\ op = "init"
    /\ op' = "set_date"
    /\ pre' = dt
    /\ other' = set_date(dt.year, dt.month, dt.day)
    /\ UNCHANGED <<dt, ret, buf, call, span, env, threads, g_holidays>>

\* SpecCalendar: every valid date of one full 400-year Gregorian cycle (after
\* which Zeller's terms repeat modulo 7) and of some later years.
CalCycle == 400
CalYears == (1 .. CalCycle) \cup {1600, 1900, 2000, 2024, 2100, 9999}
CalMasks(y) == IF y = 2024 THEN {0, MASK_YMD, MASK_YMDHMS - FOSSIL_TIME_PRECISION_DAY}
               ELSE {MASK_YMD}

InitCalendar ==
    /\ \E y \in CalYears, m \in 1 .. 12 :
          \E d \in 1 .. days_in_month(y, m), mask \in CalMasks(y) :
             dt = make_date(y, m, d, 0, 0, 0, 0, 0, 0, mask)
    /\ other = ZeroDate
    /\ pre = ZeroDate
    /\ op = "init"
    /\ ret = 0
    /\ buf = ""
    /\ env = NoEnv /\ threads = NoThreads /\ g_holidays = NoRegistry
    /\ call = NoCall
    /\ span = NoSpan

NextCalendar == CalendarComputeDerived \/ HolidaySetDate

SpecCalendar == InitCalendar /\ [][NextCalendar]_vars

-----------------------------------------------------------------------------
(* SpecCompare: two dates that differ in a few of the nine compared fields *)
(* and in their masks, compared.                                           *)

Compare ==
    /\ op = "init"
    /\ op' = "compare"
    /\ pre' = dt
    /\ ret' = fossil_time_date_compare(dt, other)
    /\ UNCHANGED <<dt, other, buf, call, span, env, threads, g_holidays>>

\* The largest number of fields in which the two operands differ.
CmpMaxDiff == 2

\* 2024-06-15 12:30:30.500500500, each field moved up by v[i] in {0, 1}.
CmpDate(v, mask) ==
    make_date(2024 + v[1], 6 + v[2], 15 + v[3], 12 + v[4], 30 + v[5], 30 + v[6],
              500 + v[7], 500 + v[8], 500 + v[9], mask)

CmpMasks == {0, MASK_YMDHMS}

InitCompare ==
    /\ \E v \in [1 .. 9 -> {0, 1}], w \in [1 .. 9 -> {0, 1}],
          ma \in CmpMasks, mb \in CmpMasks :
          /\ Cardinality({i \in 1 .. 9 : v[i] # w[i]}) <= CmpMaxDiff
          /\ dt = CmpDate(v, ma)
          /\ other = CmpDate(w, mb)
    /\ pre = ZeroDate
    /\ op = "init"
    /\ ret = 0
    /\ buf = ""
    /\ env = NoEnv /\ threads = NoThreads /\ g_holidays = NoRegistry
    /\ call = NoCall
    /\ span = NoSpan

NextCompare == Compare

SpecCompare == InitCompare /\ [][NextCompare]_vars

-----------------------------------------------------------------------------
(* C strings for the search DSL (date.c): characters, <ctype.h>, sscanf     *)
(* directives, fossil_pattern_match, fossil_parse_int.  A string is a TLA+  *)
(* string, position 1 is s[0], and the terminator reads as "".              *)

Ch(s, i) == IF i >= 1 /\ i <= Len(s) THEN SubSeq(s, i, i) ELSE ""

\* The rest of s from position i on (the C pointer s + i - 1).
From(s, i) == SubSeq(s, i, Len(s))

\* The characters with codes 32 .. 95 and 97 .. 126.
AsciiUpTo95 ==
    " !\"#$%&'()*+,-./0123456789:;<=>?@ABCDEFGHIJKLMNOPQRSTUVWXYZ[\\]^_"
AsciiFrom97 == "abcdefghijklmnopqrstuvwxyz{|}~"

\* The character code: 32 for the space up to 126 for the tilde.
Ord(c) ==
    IF \E k \in 1 .. Len(AsciiUpTo95) : Ch(AsciiUpTo95, k) = c
    THEN 31 + CHOOSE k \in 1 .. Len(AsciiUpTo95) : Ch(AsciiUpTo95, k) = c
    ELSE 96 + CHOOSE k \in 1 .. Len(AsciiFrom97) : Ch(AsciiFrom97, k) = c

isdigit(c) == c \in {"0", "1", "2", "3", "4", "5", "6", "7", "8", "9"}
isspace(c) == c = " "

\* The lower-case letter of each upper-case letter.
LowerCase ==
    [ A |-> "a", B |-> "b", C |-> "c", D |-> "d", E |-> "e", F |-> "f", G
      |-> "g", H |-> "h", I |-> "i", J |-> "j", K |-> "k", L |-> "l", M |->
      "m", N |-> "n", O |-> "o", P |-> "p", Q |-> "q", R |-> "r", S |-> "s",
      T |-> "t", U |-> "u", V |-> "v", W |-> "w", X |-> "x", Y |-> "y", Z
      |-> "z" ]

tolower(c) == IF c \in DOMAIN LowerCase THEN LowerCase[c] ELSE c

\* fossil_match_char_class(c, pattern, &consumed) with pattern[0] = '[' at
\* position 1: [match, consumed], i being the C index into pattern.
RECURSIVE match_char_class_from(_, _, _, _)
match_char_class_from(c, pattern, i, match) ==
    LET at(k) == Ch(pattern, k + 1)
    IN  IF at(i) # "" /\ at(i) # "]"
        THEN IF at(i + 1) = "-" /\ at(i + 2) # "" /\ at(i + 2) # "]"
             THEN match_char_class_from(c, pattern, i + 3,
                      match \/ (Ord(c) >= Ord(at(i)) /\ Ord(c) <= Ord(at(i + 2))))
             ELSE match_char_class_from(c, pattern, i + 1, match \/ c = at(i))
        ELSE [match |-> match, consumed |-> IF at(i) = "]" THEN i + 1 ELSE i]

fossil_match_char_class(c, pattern) == match_char_class_from(c, pattern, 1, FALSE)

RECURSIVE fossil_pattern_match(_, _)
fossil_pattern_match(str, pattern) ==
    IF pattern = "" THEN str = ""
    ELSE IF Ch(pattern, 1) = "*"
    THEN IF Len(pattern) = 1 THEN TRUE
         ELSE \E k \in 1 .. Len(str) : fossil_pattern_match(From(str, k), From(pattern, 2))
    ELSE IF Ch(pattern, 1) = "?"
    THEN str # "" /\ fossil_pattern_match(From(str, 2), From(pattern, 2))
    ELSE IF Ch(pattern, 1) = "["
    THEN /\ str # ""
         /\ fossil_match_char_class(Ch(str, 1), pattern).match
         /\ fossil_pattern_match(From(str, 2),
                From(pattern, fossil_match_char_class(Ch(str, 1), pattern).consumed + 1))
    ELSE /\ tolower(Ch(str, 1)) = tolower(Ch(pattern, 1))
         /\ fossil_pattern_match(From(str, 2), From(pattern, 2))

\* The digits of s from position i on as a number, or -1 at a non-digit.
RECURSIVE parse_digits(_, _, _)
parse_digits(s, i, value) ==
    IF i > Len(s) THEN value
    ELSE IF ~isdigit(Ch(s, i)) THEN -1
    ELSE parse_digits(s, i + 1, value * 10 + (Ord(Ch(s, i)) - Ord("0")))

\* [ok, out]
fossil_parse_int(s) ==
    LET neg == Ch(s, 1) = "-"
        first == IF neg THEN 2 ELSE 1
        value == parse_digits(s, first, 0)
    IN  IF s = "" \/ ~isdigit(Ch(s, first)) \/ value < 0
        THEN [ok |-> FALSE, out |-> 0]
        ELSE [ok |-> TRUE, out |-> IF neg THEN -value ELSE value]

\* sscanf.  A format is a sequence of directives:
\*   <<"ws">>        white space in the format: skips any white space;
\*   <<"lit", text>> ordinary characters: each must be the next input character;
\*   <<"s", n>>      %ns: skips white space, then up to n non-space characters;
\*   <<"set", n, cs>> %n[cs]: up to n characters of cs, at least one, no skipping;
\*   <<"d">>         %d: skips white space, an optional sign, decimal digits.
\* The result is [count, out]: the number of conversions stored (-1, EOF, when
\* the input ends before the first one) and what they stored, in order.
RECURSIVE SkipSpace(_, _)
SkipSpace(s, i) == IF isspace(Ch(s, i)) THEN SkipSpace(s, i + 1) ELSE i

InSet(c, cs) == \E j \in 1 .. Len(cs) : Ch(cs, j) = c

\* The end of the run of at most n non-space characters that starts at i.
RECURSIVE WordEnd(_, _, _)
WordEnd(s, i, n) ==
    IF n = 0 \/ Ch(s, i) = "" \/ isspace(Ch(s, i)) THEN i ELSE WordEnd(s, i + 1, n - 1)

\* The end of the run of at most n characters of cs that starts at i.
RECURSIVE SetEnd(_, _, _, _)
SetEnd(s, i, n, cs) ==
    IF n = 0 \/ Ch(s, i) = "" \/ ~InSet(Ch(s, i), cs) THEN i ELSE SetEnd(s, i + 1, n - 1, cs)

RECURSIVE LitEnd(_, _, _, _)
\* The position after `text' matched at i, 0 when a character differs.
LitEnd(s, i, text, k) ==
    IF k > Len(text) THEN i
    ELSE IF Ch(s, i) = Ch(text, k) THEN LitEnd(s, i + 1, text, k + 1)
    ELSE 0

RECURSIVE sscanf_from(_, _, _, _, _)
sscanf_from(s, i, format, k, out) ==
    LET stopped == [count |-> Len(out), out |-> out]
        ended == [count |-> IF out = <<>> THEN -1 ELSE Len(out), out |-> out]
        d == format[k]
    IN  IF k > Len(format) THEN stopped
        ELSE IF d[1] = "ws" THEN sscanf_from(s, SkipSpace(s, i), format, k + 1, out)
        ELSE IF d[1] = "lit"
        THEN LET e == LitEnd(s, i, d[2], 1)
             IN  IF Ch(s, i) = "" THEN ended
                 ELSE IF e = 0 THEN stopped
                 ELSE sscanf_from(s, e, format, k + 1, out)
        ELSE IF d[1] = "s"
        THEN LET b == SkipSpace(s, i)
                 e == WordEnd(s, b, d[2])
             IN  IF Ch(s, b) = "" THEN ended
                 ELSE sscanf_from(s, e, format, k + 1, Append(out, SubSeq(s, b, e - 1)))
        ELSE IF d[1] = "set"
        THEN LET e == SetEnd(s, i, d[2], d[3])
             IN  IF Ch(s, i) = "" THEN ended
                 ELSE IF e = i THEN stopped
                 ELSE sscanf_from(s, e, format, k + 1, Append(out, SubSeq(s, i, e - 1)))
        ELSE LET b == SkipSpace(s, i)
                 signed == Ch(s, b) = "-" \/ Ch(s, b) = "+"
                 f == IF signed THEN b + 1 ELSE b
                 e == SetEnd(s, f, Len(s), "0123456789")
                 v == parse_digits(SubSeq(s, f, e - 1), 1, 0)
             IN  IF Ch(s, b) = "" THEN ended
                 ELSE IF e = f THEN stopped
                 ELSE sscanf_from(s, e, format, k + 1,
                          Append(out, IF Ch(s, b) = "-" THEN -v ELSE v))

sscanf(s, format) == sscanf_from(s, 1, format, 1, <<>>)

\* The conversion specifications and literals of the sscanf formats.
Word == <<"s", 31>>
Blank == <<"ws">>
Phrase(words) ==
    [k \in 1 .. 2 * Len(words) |->
        IF k % 2 = 1 THEN <<"lit", words[(k + 1) \div 2]>> ELSE Blank]

\* "%31s %31[<>=!] %31s"
SymbolicFormat == <<Word, Blank, <<"set", 31, "<>=!">>, Blank, Word>>

\* "%31s <words> %31s"
EnglishFormat(words) == <<Word, Blank>> \o Phrase(words) \o <<Word>>

\* "%31s in %d..%d"
RangeFormat == <<Word, Blank, <<"lit", "in">>, Blank, <<"d">>, <<"lit", "..">>, <<"d">>>>

\* The English forms in the order the code tries them, each with the
\* operator it stores.
EnglishOperators ==
    << [words |-> <<"is", "not">>,          op |-> "!="],
       [words |-> <<"is">>,                 op |-> "="],
       [words |-> <<"equals">>,             op |-> "="],
       [words |-> <<"before">>,             op |-> "<"],
       [words |-> <<"after">>,              op |-> ">"],
       [words |-> <<"on", "or", "before">>, op |-> "<="],
       [words |-> <<"on", "or", "after">>,  op |-> ">="] >>

\* Mutant: "is" is tried before "is not".
EnglishOperatorsIsFirst ==
    << [words |-> <<"is">>,                 op |-> "="],
       [words |-> <<"is", "not">>,          op |-> "!="],
       [words |-> <<"equals">>,             op |-> "="],
       [words |-> <<"before">>,             op |-> "<"],
       [words |-> <<"after">>,              op |-> ">"],
       [words |-> <<"on", "or", "before">>, op |-> "<="],
       [words |-> <<"on", "or", "after">>,  op |-> ">="] >>

RECURSIVE extract_english(_, _, _)
extract_english(query, table, k) ==
    LET r == sscanf(query, EnglishFormat(table[k].words))
    IN  IF k > Len(table) THEN [ok |-> FALSE, field |-> "", op |-> "", value |-> ""]
        ELSE IF r.count = 2
        THEN [ok |-> TRUE, field |-> r.out[1], op |-> table[k].op, value |-> r.out[2]]
        ELSE extract_english(query, table, k + 1)

\* Mutant: the English forms are tried in the wrong order.
extract_operator_is_first(query) ==
    LET r == sscanf(query, SymbolicFormat)
    IN  IF r.count = 3
        THEN [ok |-> TRUE, field |-> r.out[1], op |-> r.out[2], value |-> r.out[3]]
        ELSE extract_english(query, EnglishOperatorsIsFirst, 1)

fossil_extract_operator(query) ==
    LET r == sscanf(query, SymbolicFormat)
    IN  IF r.count = 3
        THEN [ok |-> TRUE, field |-> r.out[1], op |-> r.out[2], value |-> r.out[3]]
        ELSE extract_english(query, EnglishOperators, 1)

\* The alias table, in the order of the tests; the canonical names are the
\* strings and the query's field is the pattern.
FieldAliases ==
    << [names |-> <<"year", "y">>,                  field |-> "year"],
       [names |-> <<"month", "mon", "m">>,          field |-> "month"],
       [names |-> <<"day", "d">>,                   field |-> "day"],
       [names |-> <<"hour", "h">>,                  field |-> "hour"],
       [names |-> <<"minute", "min">>,              field |-> "minute"],
       [names |-> <<"second", "sec", "s">>,         field |-> "second"],
       [names |-> <<"weekday", "wday", "dow">>,     field |-> "weekday"],
       [names |-> <<"yearday", "yday">>,            field |-> "yearday"],
       [names |-> <<"millisecond", "ms">>,          field |-> "millisecond"],
       [names |-> <<"microsecond", "us">>,          field |-> "microsecond"],
       [names |-> <<"nanosecond", "ns">>,           field |-> "nanosecond"],
       [names |-> <<"tz_offset", "tz", "offset">>,  field |-> "tz_offset_min"] >>

RECURSIVE get_field_from(_, _, _)
get_field_from(d, field, k) ==
    IF k > Len(FieldAliases) THEN [ok |-> FALSE, out |-> 0]
    ELSE IF \E j \in 1 .. Len(FieldAliases[k].names) :
                fossil_pattern_match(FieldAliases[k].names[j], field)
    THEN [ok |-> TRUE, out |-> d[FieldAliases[k].field]]
    ELSE get_field_from(d, field, k + 1)

fossil_time_date_get_field(d, field) == get_field_from(d, field, 1)

fossil_cmp(lhs, o, rhs) ==
    IF o \in {"=", "==", "is", "equals"} THEN lhs = rhs
    ELSE IF o \in {"!=", "is not", "<>", "not equals"} THEN lhs # rhs
    ELSE IF o \in {"<", "before", "lt", "less"} THEN lhs < rhs
    ELSE IF o \in {">", "after", "gt", "greater"} THEN lhs > rhs
    ELSE IF o \in {"<=", "on or before", "le", "lte", "less or equal"} THEN lhs <= rhs
    ELSE IF o \in {">=", "on or after", "ge", "gte", "greater or equal"} THEN lhs >= rhs
    ELSE FALSE

\* A null pointer passed for `now'.
NULL == [null |-> TRUE]

RECURSIVE lower(_)
lower(s) == IF s = "" THEN "" ELSE tolower(Ch(s, 1)) \o lower(From(s, 2))

strcasecmp_equal(a, b) == lower(a) = lower(b)

WeekdayNames ==
    <<"sunday", "monday", "tuesday", "wednesday", "thursday", "friday", "saturday">>

\* The keyword blocks: `hit' tells that a keyword returned, `result' what.
Returned(b) == [hit |-> TRUE, result |-> b]
NotReturned == [hit |-> FALSE, result |-> FALSE]

\* Mutant: only Saturday counts as the weekend.
search_keywords_saturday_only(d, now, query) ==
    IF now # NULL /\ query \in {"today", "this day"}
    THEN Returned(d.year = now.year /\ d.month = now.month /\ d.day = now.day)
    ELSE IF query \in {"weekend", "is weekend"}
    THEN Returned(d.weekday = 6)
    ELSE IF query \in {"weekday", "is weekday"}
    THEN Returned(d.weekday >= 1 /\ d.weekday <= 5)
    ELSE IF query = "leap year" THEN Returned(is_leap(d.year))
    ELSE IF query = "first of month" THEN Returned(d.day = 1)
    ELSE IF query = "last of month"
    THEN Returned(d.day = days_in_month(d.year, d.month))
    ELSE IF now # NULL /\ query \in {"past", "in the past"}
    THEN Returned(fossil_time_date_compare(d, now) < 0)
    ELSE IF now # NULL /\ query \in {"future", "in the future"}
    THEN Returned(fossil_time_date_compare(d, now) > 0)
    ELSE IF now # NULL /\ query \in {"before today", "before now"}
    THEN Returned(fossil_time_date_compare(d, now) < 0)
    ELSE IF now # NULL /\ query \in {"after today", "after now"}
    THEN Returned(fossil_time_date_compare(d, now) > 0)
    ELSE NotReturned

search_keywords(d, now, query) ==
    IF now # NULL /\ query \in {"today", "this day"}
    THEN Returned(d.year = now.year /\ d.month = now.month /\ d.day = now.day)
    ELSE IF query \in {"weekend", "is weekend"}
    THEN Returned(d.weekday = 0 \/ d.weekday = 6)
    ELSE IF query \in {"weekday", "is weekday"}
    THEN Returned(d.weekday >= 1 /\ d.weekday <= 5)
    ELSE IF query = "leap year" THEN Returned(is_leap(d.year))
    ELSE IF query = "first of month" THEN Returned(d.day = 1)
    ELSE IF query = "last of month"
    THEN Returned(d.day = days_in_month(d.year, d.month))
    ELSE IF now # NULL /\ query \in {"past", "in the past"}
    THEN Returned(fossil_time_date_compare(d, now) < 0)
    ELSE IF now # NULL /\ query \in {"future", "in the future"}
    THEN Returned(fossil_time_date_compare(d, now) > 0)
    ELSE IF now # NULL /\ query \in {"before today", "before now"}
    THEN Returned(fossil_time_date_compare(d, now) < 0)
    ELSE IF now # NULL /\ query \in {"after today", "after now"}
    THEN Returned(fossil_time_date_compare(d, now) > 0)
    ELSE NotReturned

\* The field comparison block.
search_compare(d, query) ==
    LET x == fossil_extract_operator(query)
        lhs == fossil_time_date_get_field(d, x.field)
        rhs == fossil_parse_int(x.value)
    IN  IF ~x.ok THEN NotReturned
        ELSE IF ~lhs.ok THEN Returned(FALSE)
        ELSE IF ~rhs.ok THEN Returned(FALSE)
        ELSE Returned(fossil_cmp(lhs.out, x.op, rhs.out))

\* Mutant: the upper end of a range is exclusive.
search_range_half_open(d, query) ==
    LET r == sscanf(query, RangeFormat)
        lhs == fossil_time_date_get_field(d, r.out[1])
    IN  IF r.count # 3 THEN NotReturned
        ELSE IF lhs.ok THEN Returned(lhs.out >= r.out[2] /\ lhs.out < r.out[3])
        ELSE Returned(FALSE)

\* The range block.
search_range(d, query) ==
    LET r == sscanf(query, RangeFormat)
        lhs == fossil_time_date_get_field(d, r.out[1])
    IN  IF r.count # 3 THEN NotReturned
        ELSE IF lhs.ok THEN Returned(lhs.out >= r.out[2] /\ lhs.out <= r.out[3])
        ELSE Returned(FALSE)

\* The weekday name loop.
search_weekday_name(d, query) ==
    \E i \in 0 .. 6 :
        strcasecmp_equal(query, WeekdayNames[i + 1]) /\ d.weekday = i

fossil_time_date_search(d, now, query) ==
    LET keyword == search_keywords(d, now, query)
        compared == search_compare(d, query)
        ranged == search_range(d, query)
    IN  IF query = "" THEN FALSE
        ELSE IF keyword.hit THEN keyword.result
        ELSE IF compared.hit THEN compared.result
        ELSE IF ranged.hit THEN ranged.result
        ELSE search_weekday_name(d, query)

-----------------------------------------------------------------------------
(* SpecSearch: a few dates, with and without `now', searched with every     *)
(* comparison "<field> <op> <value>", every range "<field> in <a>..<b>" and *)
(* every keyword of a small vocabulary.  `other' is the `now' argument.     *)

\* The text of an integer as a caller writes it in a query.
IntText(v) == IF v < 0 THEN "-" \o Dec(0 - v) ELSE Dec(v)

SearchFields ==
    UNION {{FieldAliases[k].names[j] : j \in 1 .. Len(FieldAliases[k].names)} :
              k \in 1 .. Len(FieldAliases)}

SearchOperators ==
    {"=", "==", "!=", "<", ">", "<=", ">=",
     "is", "is not", "equals", "before", "after", "on or before", "on or after"}

SearchValues == {-5, 4, 5, 6}

SearchKeywords ==
    {"today", "this day", "weekend", "is weekend", "weekday", "is weekday",
     "leap year", "first of month", "last of month",
     "past", "in the past", "future", "in the future",
     "before today", "before now", "after today", "after now",
     "sunday", "Wednesday", "SATURDAY", "someday"}

SearchCompare ==
    /\ op = "init"
    /\ \E field \in SearchFields, o \in SearchOperators, value \in SearchValues :
          LET query == field \o " " \o o \o " " \o IntText(value)
          IN  /\ call' = [query |-> query, field |-> field, operator |-> o,
                          value |-> value]
              /\ ret' = IF fossil_time_date_search(dt, other, query) THEN 1 ELSE 0
    /\ op' = "search_compare"
    /\ pre' = dt
    /\ UNCHANGED <<dt, other, buf, span, env, threads, g_holidays>>

SearchRange ==
    /\ op = "init"
    /\ \E field \in SearchFields, start \in SearchValues, end \in SearchValues :
          LET query == field \o " in " \o IntText(start) \o ".." \o IntText(end)
          IN  /\ call' = [query |-> query, field |-> field, start |-> start,
                          end |-> end]
              /\ ret' = IF fossil_time_date_search(dt, other, query) THEN 1 ELSE 0
    /\ op' = "search_range"
    /\ pre' = dt
    /\ UNCHANGED <<dt, other, buf, span, env, threads, g_holidays>>

SearchKeyword ==
    /\ op = "init"
    /\ \E query \in SearchKeywords :
          /\ call' = [query |-> query]
          /\ ret' = IF fossil_time_date_search(dt, other, query) THEN 1 ELSE 0
    /\ op' = "search_keyword"
    /\ pre' = dt
    /\ UNCHANGED <<dt, other, buf, span, env, threads, g_holidays>>

\* "within N seconds", the query form of the header's examples; N = 1 is
\* written "within 1 second".
SearchWithinValues == {1, 2, 3, 5}

SearchWithin ==
    /\ op = "init"
    /\ \E n \in SearchWithinValues :
          LET query == "within " \o IntText(n)
                       \o (IF n = 1 THEN " second" ELSE " seconds")
          IN  /\ call' = [query |-> query, n |-> n]
              /\ ret' = IF fossil_time_date_search(dt, other, query) THEN 1 ELSE 0
    /\ op' = "search_within"
    /\ pre' = dt
    /\ UNCHANGED <<dt, other, buf, span, env, threads, g_holidays>>

\* 0005-05-05 05:05:05.005005005, a Friday by its weekday field, zone +5.
SearchFive(mask) ==
    [make_date(5, 5, 5, 5, 5, 5, 5, 5, 5, mask) EXCEPT
        !.weekday = 5, !.yearday = 5, !.tz_offset_min = 5]

SearchDates(mask) ==
    { SearchFive(mask),
      [SearchFive(mask) EXCEPT !.hour = 4, !.weekday = 0, !.tz_offset_min = -5],
      [SearchFive(mask) EXCEPT !.year = 6, !.day = 1, !.weekday = 6],
      [SearchFive(mask) EXCEPT !.day = 6, !.weekday = 3, !.yearday = 6],
      [SearchFive(mask) EXCEPT !.second = 8, !.weekday = 2],
      [make_date(2024, 2, 29, 12, 34, 56, 4, 5, 6, mask) EXCEPT
          !.weekday = -1, !.yearday = 60] }

SearchMasks == {0, MASK_YMDHMS}

SearchNows ==
    { NULL, SearchFive(MASK_YMDHMS),
      [make_date(2024, 2, 29, 12, 34, 56, 4, 5, 6, MASK_YMDHMS) EXCEPT
          !.weekday = 4, !.yearday = 60] }

InitSearch ==
    /\ \E mask \in SearchMasks : dt \in SearchDates(mask)
    /\ other \in SearchNows
    /\ pre = ZeroDate
    /\ op = "init"
    /\ ret = 0
    /\ buf = ""
    /\ env = NoEnv /\ threads = NoThreads /\ g_holidays = NoRegistry
    /\ call = NoCall
    /\ span = NoSpan

NextSearch == SearchCompare \/ SearchRange \/ SearchKeyword \/ SearchWithin

SpecSearch == InitSearch /\ [][NextSearch]_vars

-----------------------------------------------------------------------------
(* Span module (span.c).  A span has twelve rungs and a precision mask with *)
(* one bit per rung; the mask is kept as the set of the rungs whose bit is  *)
(* set, so that `|' is union and `mask & BIT' is membership.  days is an    *)
(* int64_t, every other rung an int32_t; the values used here stay far from *)
(* the ends of these types, so the sums of normalize, add and sub are exact,*)
(* but not the 32-bit products of to_seconds.                               *)

SpanRungs ==
    {"days", "hours", "minutes", "seconds", "milliseconds", "microseconds",
     "nanoseconds", "picoseconds", "femtoseconds", "attoseconds",
     "zeptoseconds", "yoctoseconds"}

make_span(days, hours, minutes, seconds, ms, us, ns, mask) ==
    [days |-> days, hours |-> hours, minutes |-> minutes, seconds |-> seconds,
     milliseconds |-> ms, microseconds |-> us, nanoseconds |-> ns,
     picoseconds |-> 0, femtoseconds |-> 0, attoseconds |-> 0,
     zeptoseconds |-> 0, yoctoseconds |-> 0, precision_mask |-> mask]

\* Mutant: the carry from seconds stops at the minutes, hours are not carried.
span_normalize_no_day_carry(s) ==
    LET us == s.microseconds + CDiv(s.nanoseconds, 1000)
        ms == s.milliseconds + CDiv(us, 1000)
        sec == s.seconds + CDiv(ms, 1000)
        min == s.minutes + CDiv(sec, 60)
        hrs == s.hours + CDiv(min, 60)
    IN  [s EXCEPT !.nanoseconds = CMod(s.nanoseconds, 1000),
                  !.microseconds = CMod(us, 1000),
                  !.milliseconds = CMod(ms, 1000),
                  !.seconds = CMod(sec, 60),
                  !.minutes = CMod(min, 60),
                  !.hours = hrs]

fossil_time_span_normalize(s) ==
    LET us == s.microseconds + CDiv(s.nanoseconds, 1000)
        ms == s.milliseconds + CDiv(us, 1000)
        sec == s.seconds + CDiv(ms, 1000)
        min == s.minutes + CDiv(sec, 60)
        hrs == s.hours + CDiv(min, 60)
    IN  [s EXCEPT !.nanoseconds = CMod(s.nanoseconds, 1000),
                  !.microseconds = CMod(us, 1000),
                  !.milliseconds = CMod(ms, 1000),
                  !.seconds = CMod(sec, 60),
                  !.minutes = CMod(min, 60),
                  !.hours = CMod(hrs, 24),
                  !.days = s.days + CDiv(hrs, 24)]

SpanNormalize ==
    /\ op = "init"
    /\ op' = "span_normalize"
    /\ pre' = span
    /\ span' = fossil_time_span_normalize(span)
    /\ UNCHANGED <<dt, other, ret, buf, call, env, threads, g_holidays>>

\* Counts of seconds as [q, r] records: order, sum, and the ends of int.
SecLess(x, y) == x.q < y.q \/ (x.q = y.q /\ x.r < y.r)
SecAdd(x, y) == Sec64(x.q + y.q, x.r + y.r)
SecZero == [q |-> 0, r |-> 0]
\* INT_MAX = 2147483647, INT_MIN = -2147483648, 2^32 = 4294967296
SecIntMax == [q |-> 24855, r |-> 11647]
SecIntMin == [q |-> -24856, r |-> 74752]
SecTwo32 == [q |-> 49710, r |-> 23296]

\* The value of an int product whose exact value is x.  Beyond the ends of
\* int the multiplication overflows, which is undefined: a build either
\* keeps the low 32 bits (wrap) or multiplies in a wider register.
IntProduct(x, wrap) ==
    IF wrap /\ SecLess(SecIntMax, x) THEN Sec64(x.q - SecTwo32.q, x.r - SecTwo32.r)
    ELSE IF wrap /\ SecLess(x, SecIntMin) THEN Sec64(x.q + SecTwo32.q, x.r + SecTwo32.r)
    ELSE x

\* days is int64_t: days * 86400 is a 64-bit product.  hours and minutes are
\* 32-bit: hours * 3600 and minutes * 60 are int products, widened after.
fossil_time_span_to_seconds(s, wrap) ==
    LET has(rung) == rung \in s.precision_mask
        t1 == IF has("days") THEN [q |-> s.days, r |-> 0] ELSE SecZero
        t2 == IF has("hours")
              THEN SecAdd(t1, IntProduct(Sec64(s.hours \div 24, (s.hours % 24) * 3600), wrap))
              ELSE t1
        t3 == IF has("minutes")
              THEN SecAdd(t2, IntProduct(Sec64(s.minutes \div 1440, (s.minutes % 1440) * 60), wrap))
              ELSE t2
    IN  IF has("seconds") THEN SecAdd(t3, Sec64(0, s.seconds)) ELSE t3

NanosPerSecond == 1000000000

\* A count of nanoseconds as [s, n]: s seconds (a [q, r] record) and
\* 0 <= n < 10^9 nanoseconds.
Nano64(sec, n) ==
    [s |-> SecAdd(sec, Sec64(0, n \div NanosPerSecond)), n |-> n % NanosPerSecond]

fossil_time_span_to_nanoseconds(s, wrap) ==
    LET has(rung) == rung \in s.precision_mask
        t0 == Nano64(fossil_time_span_to_seconds(s, wrap), 0)
        t1 == IF has("milliseconds")
              THEN Nano64(SecAdd(t0.s, Sec64(0, s.milliseconds \div 1000)),
                          t0.n + (s.milliseconds % 1000) * 1000000)
              ELSE t0
        t2 == IF has("microseconds")
              THEN Nano64(SecAdd(t1.s, Sec64(0, s.microseconds \div 1000000)),
                          t1.n + (s.microseconds % 1000000) * 1000)
              ELSE t1
    IN  IF has("nanoseconds")
        THEN Nano64(SecAdd(t2.s, Sec64(0, s.nanoseconds \div NanosPerSecond)),
                    t2.n + (s.nanoseconds % NanosPerSecond))
        ELSE t2

SpanToSeconds ==
    /\ op = "init"
    /\ op' = "span_to_seconds"
    /\ pre' = span
    /\ \E wrap \in BOOLEAN : ret' = fossil_time_span_to_seconds(span, wrap)
    /\ UNCHANGED <<dt, other, buf, call, span, env, threads, g_holidays>>

SpanToNanoseconds ==
    /\ op = "init"
    /\ op' = "span_to_nanoseconds"
    /\ pre' = span
    /\ \E wrap \in BOOLEAN : ret' = fossil_time_span_to_nanoseconds(span, wrap)
    /\ UNCHANGED <<dt, other, buf, call, span, env, threads, g_holidays>>

\* SpecSpan: spans whose rungs sit below, at and above their carry points,
\* under masks over the seven rungs the conversions read.
SpanMasks ==
    {dhms \cup sub : dhms \in SUBSET {"days", "hours", "minutes", "seconds"},
                     sub \in {{}, {"milliseconds"}, {"microseconds", "nanoseconds"},
                              {"milliseconds", "microseconds", "nanoseconds"}}}

InitSpan ==
    /\ \E d \in {0, 3}, h \in {1, 23, 50, 600000}, m \in {1, 59}, sec \in {4, 59, 125},
          ms \in {0, 999, 1500}, us \in {3, 999}, ns \in {-1500, 0, 999, 1001},
          mask \in SpanMasks :
          span = make_span(d, h, m, sec, ms, us, ns, mask)
    /\ dt = ZeroDate
    /\ other = ZeroDate
    /\ pre = NoSpan
    /\ op = "init"
    /\ ret = 0
    /\ buf = ""
    /\ env = NoEnv /\ threads = NoThreads /\ g_holidays = NoRegistry
    /\ call = NoCall

NextSpan == SpanNormalize \/ SpanToSeconds \/ SpanToNanoseconds

SpecSpan == InitSpan /\ [][NextSpan]_vars

\* Mutant: the line for the last rung, yoctoseconds, is lost.
span_add_without_yocto(a, b) ==
    [a EXCEPT !.days = a.days + b.days,
              !.hours = a.hours + b.hours,
              !.minutes = a.minutes + b.minutes,
              !.seconds = a.seconds + b.seconds,
              !.milliseconds = a.milliseconds + b.milliseconds,
              !.microseconds = a.microseconds + b.microseconds,
              !.nanoseconds = a.nanoseconds + b.nanoseconds,
              !.picoseconds = a.picoseconds + b.picoseconds,
              !.femtoseconds = a.femtoseconds + b.femtoseconds,
              !.attoseconds = a.attoseconds + b.attoseconds,
              !.zeptoseconds = a.zeptoseconds + b.zeptoseconds,
              !.precision_mask = a.precision_mask \cup b.precision_mask]

\* *result = *a; then one `+=' per rung and `|=' on the mask.
fossil_time_span_add(a, b) ==
    [a EXCEPT !.days = a.days + b.days,
              !.hours = a.hours + b.hours,
              !.minutes = a.minutes + b.minutes,
              !.seconds = a.seconds + b.seconds,
              !.milliseconds = a.milliseconds + b.milliseconds,
              !.microseconds = a.microseconds + b.microseconds,
              !.nanoseconds = a.nanoseconds + b.nanoseconds,
              !.picoseconds = a.picoseconds + b.picoseconds,
              !.femtoseconds = a.femtoseconds + b.femtoseconds,
              !.attoseconds = a.attoseconds + b.attoseconds,
              !.zeptoseconds = a.zeptoseconds + b.zeptoseconds,
              !.yoctoseconds = a.yoctoseconds + b.yoctoseconds,
              !.precision_mask = a.precision_mask \cup b.precision_mask]

fossil_time_span_sub(a, b) ==
    [a EXCEPT !.days = a.days - b.days,
              !.hours = a.hours - b.hours,
              !.minutes = a.minutes - b.minutes,
              !.seconds = a.seconds - b.seconds,
              !.milliseconds = a.milliseconds - b.milliseconds,
              !.microseconds = a.microseconds - b.microseconds,
              !.nanoseconds = a.nanoseconds - b.nanoseconds,
              !.picoseconds = a.picoseconds - b.picoseconds,
              !.femtoseconds = a.femtoseconds - b.femtoseconds,
              !.attoseconds = a.attoseconds - b.attoseconds,
              !.zeptoseconds = a.zeptoseconds - b.zeptoseconds,
              !.yoctoseconds = a.yoctoseconds - b.yoctoseconds,
              !.precision_mask = a.precision_mask \cup b.precision_mask]

\* The second operand b is call.b; the result is stored over `span'.
SpanAdd ==
    /\ op = "init"
    /\ op' = "span_add"
    /\ pre' = span
    /\ span' = fossil_time_span_add(span, call.b)
    /\ UNCHANGED <<dt, other, ret, buf, call, env, threads, g_holidays>>

SpanSub ==
    /\ op = "init"
    /\ op' = "span_sub"
    /\ pre' = span
    /\ span' = fossil_time_span_sub(span, call.b)
    /\ UNCHANGED <<dt, other, ret, buf, call, env, threads, g_holidays>>

\* sub(add(a, b), b): the sum is the first operand of the subtraction.
SpanSubAfterAdd ==
    /\ op = "span_add"
    /\ op' = "span_add_sub"
    /\ span' = fossil_time_span_sub(span, call.b)
    /\ UNCHANGED <<dt, other, pre, ret, buf, call, env, threads, g_holidays>>

\* SpecSpanArith: a has a different value on every rung, b is constant but
\* on a few rungs.
ArithMaxRungs == 2

ArithRungOrder ==
    <<"days", "hours", "minutes", "seconds", "milliseconds", "microseconds",
      "nanoseconds", "picoseconds", "femtoseconds", "attoseconds",
      "zeptoseconds", "yoctoseconds">>

\* The span whose k-th rung holds v[k].
SpanOfRungs(v, mask) ==
    [f \in SpanRungs \cup {"precision_mask"} |->
        IF f = "precision_mask" THEN mask
        ELSE v[CHOOSE k \in 1 .. 12 : ArithRungOrder[k] = f]]

ArithMasks == {{}, {"days", "hours"}, {"hours", "nanoseconds", "yoctoseconds"}}

InitSpanArith ==
    /\ \E scale \in {-3, 1, 1000}, ma \in ArithMasks :
          span = SpanOfRungs([k \in 1 .. 12 |-> scale * k], ma)
    /\ \E S \in SUBSET (1 .. 12), v \in {-7, 7}, w \in {0, 1}, mb \in ArithMasks :
          /\ Cardinality(S) <= ArithMaxRungs
          /\ call = [b |-> SpanOfRungs([k \in 1 .. 12 |-> IF k \in S THEN v ELSE w], mb)]
    /\ dt = ZeroDate
    /\ other = ZeroDate
    /\ pre = NoSpan
    /\ op = "init"
    /\ ret = 0
    /\ buf = ""
    /\ env = NoEnv /\ threads = NoThreads /\ g_holidays = NoRegistry

NextSpanArith == SpanAdd \/ SpanSub \/ SpanSubAfterAdd

SpecSpanArith == InitSpanArith /\ [][NextSpanArith]_vars

-----------------------------------------------------------------------------
(* fossil_time_date_diff_seconds and fossil_time_date_format_smart (date.c) *)
(* and SpecSmart: dates around a fixed `now' (`other'), described relative  *)
(* to it.                                                                   *)

\* int64_t x - y and x / size (x >= 0, size > 0) on [q, r] seconds.  A size
\* of whole days divides the day count; a smaller size is applied to counts
\* that fit a 32-bit integer only.
SecSub(x, y) == Sec64(x.q - y.q, x.r - y.r)
SecDiv(x, size) ==
    IF size % SecondsPerDay = 0 THEN x.q \div (size \div SecondsPerDay)
    ELSE (x.q * SecondsPerDay + x.r) \div size

\* Mutant: the operands of the subtraction are exchanged.
diff_seconds_exchanged(a, b) ==
    SecSub(fossil_time_date_to_unix_seconds(b), fossil_time_date_to_unix_seconds(a))

fossil_time_date_diff_seconds(a, b) ==
    SecSub(fossil_time_date_to_unix_seconds(a), fossil_time_date_to_unix_seconds(b))

\* The if / else if ladder, coarsest unit first.
SmartLadder ==
    << [size |-> 31536000, unit |-> "years"],
       [size |-> 2592000,  unit |-> "months"],
       [size |-> 604800,   unit |-> "weeks"],
       [size |-> 86400,    unit |-> "days"],
       [size |-> 3600,     unit |-> "hours"],
       [size |-> 60,       unit |-> "minutes"] >>

RECURSIVE smart_bucket(_, _)
smart_bucket(abs_diff, k) ==
    IF k > Len(SmartLadder)
    THEN [unit |-> "seconds", value |-> SecDiv(abs_diff, 1)]
    ELSE IF ~SecLess(abs_diff, Sec64(0, SmartLadder[k].size))
    THEN [unit |-> SmartLadder[k].unit, value |-> SecDiv(abs_diff, SmartLadder[k].size)]
    ELSE smart_bucket(abs_diff, k + 1)

\* The singular correction.
SingularOf ==
    [seconds |-> "second", minutes |-> "minute", hours |-> "hour", days |-> "day",
     weeks |-> "week", months |-> "month", years |-> "year"]

\* Mutant: the singular correction is lost.
format_smart_always_plural(d, now, held, buffer_size) ==
    LET diff == fossil_time_date_diff_seconds(d, now)
        future == SecLess(SecZero, diff)
        abs_diff == IF future THEN diff ELSE SecSub(SecZero, diff)
        b == smart_bucket(abs_diff, 1)
    IN  IF now = NULL \/ buffer_size = 0 THEN [text |-> held, n |-> 0]
        ELSE IF diff = SecZero
        THEN [f \in {"text", "n"} |-> snprintf_at(Filling(held), buffer_size, "now")[f]]
        ELSE IF future
        THEN [f \in {"text", "n"} |->
                 snprintf_at(Filling(held), buffer_size,
                             "in " \o Dec(b.value) \o " " \o b.unit)[f]]
        ELSE [f \in {"text", "n"} |->
                 snprintf_at(Filling(held), buffer_size,
                             Dec(b.value) \o " " \o b.unit \o " ago")[f]]

\* [text, n]: the buffer's text and the returned value.
fossil_time_date_format_smart(d, now, held, buffer_size) ==
    LET diff == fossil_time_date_diff_seconds(d, now)
        future == SecLess(SecZero, diff)
        abs_diff == IF future THEN diff ELSE SecSub(SecZero, diff)
        b == smart_bucket(abs_diff, 1)
        unit == IF b.value = 1 THEN SingularOf[b.unit] ELSE b.unit
    IN  IF now = NULL \/ buffer_size = 0 THEN [text |-> held, n |-> 0]
        ELSE IF diff = SecZero
        THEN [f \in {"text", "n"} |-> snprintf_at(Filling(held), buffer_size, "now")[f]]
        ELSE IF future
        THEN [f \in {"text", "n"} |->
                 snprintf_at(Filling(held), buffer_size,
                             "in " \o Dec(b.value) \o " " \o unit)[f]]
        ELSE [f \in {"text", "n"} |->
                 snprintf_at(Filling(held), buffer_size,
                             Dec(b.value) \o " " \o unit \o " ago")[f]]

fossil_time_date_format_relative(d, now, held, buffer_size) ==
    fossil_time_date_format_smart(d, now, held, buffer_size)

SmartSizes == {0, 4, 64}

FormatSmart ==
    /\ op = "init"
    /\ \E sz \in SmartSizes :
          LET r == fossil_time_date_format_smart(dt, other, buf, sz)
          IN  /\ call' = [buffer_size |-> sz]
              /\ ret' = r.n
              /\ buf' = r.text
    /\ op' = "format_smart"
    /\ pre' = dt
    /\ UNCHANGED <<dt, other, span, env, threads, g_holidays>>

FormatRelative ==
    /\ op = "init"
    /\ \E sz \in SmartSizes :
          LET r == fossil_time_date_format_relative(dt, other, buf, sz)
          IN  /\ call' = [buffer_size |-> sz]
              /\ ret' = r.n
              /\ buf' = r.text
    /\ op' = "format_relative"
    /\ pre' = dt
    /\ UNCHANGED <<dt, other, span, env, threads, g_holidays>>

\* now = 2024-06-01 12:00:00, as in the test; dt is now with fields moved.
SmartNow == make_date(2024, 6, 1, 12, 0, 0, 0, 0, 0, MASK_YMDHMS)
SmartYears == {2023, 2024, 2025, 2030}
SmartMonths == {5, 6, 7}
SmartDays == {1, 2, 8, 31}
SmartHours == {11, 12, 13}
SmartMinutes == {0, 1, 59}
SmartSeconds == {-5, 0, 1, 10, 59}

InitSmart ==
    /\ \E y \in SmartYears, mo \in SmartMonths, d \in SmartDays, h \in SmartHours,
          mi \in SmartMinutes, sec \in SmartSeconds :
          dt = make_date(y, mo, d, h, mi, sec, 0, 0, 0, MASK_YMDHMS)
    /\ other = SmartNow
    /\ pre = ZeroDate
    /\ op = "init"
    /\ ret = 0
    /\ buf = StaleText
    /\ env = NoEnv /\ threads = NoThreads /\ g_holidays = NoRegistry
    /\ call = NoCall
    /\ span = NoSpan

NextSmart == FormatSmart \/ FormatRelative

SpecSmart == InitSmart /\ [][NextSmart]_vars

-----------------------------------------------------------------------------
(* SpecThreads: two threads call fossil_time_date_normalize at the same     *)
(* time, thread 1 on `dt' and thread 2 on `other'.  On the POSIX branch     *)
(* fossil_time_internal_timegm reads and writes the TZ variable of the      *)
(* process, so a call is a sequence of steps on `env' that the other        *)
(* thread's steps interleave with: getenv, setenv + tzset, mktime, the      *)
(* restoring setenv / unsetenv + tzset, and gmtime_r with the two stores.   *)
(* `env' is [set, TZ, localtime]: whether TZ is set, its value, and the     *)
(* offset in seconds east of UTC of the system's zone, used when it is      *)
(* not.  The strings getenv returns are taken to stay readable after the    *)
(* later setenv calls, as in glibc, which never frees them; the interleaved *)
(* setenv calls are taken to be atomic.                                     *)

\* Seconds east of UTC of a TZ setting (fixed-offset POSIX zones).
ZoneOffset(e) ==
    IF ~e.set THEN e.localtime
    ELSE CASE e.TZ = "UTC" -> 0
           [] e.TZ = "EST5" -> -18000
           [] e.TZ = "JST-9" -> 32400

\* mktime(tm) under the zone in force: tm is read as local time.
mktime(tm, e) ==
    LET utc == mktime_utc(tm)
    IN  Sec64(utc.q, utc.r - ZoneOffset(e))

\* setenv("TZ", value, 1) and unsetenv("TZ").
setenv_TZ(e, value) == [e EXCEPT !.set = TRUE, !.TZ = value]
unsetenv_TZ(e) == [e EXCEPT !.set = FALSE, !.TZ = ""]

ThreadIds == {1, 2}
DateOf(t) == IF t = 1 THEN dt ELSE other

\* char *old_tz = getenv("TZ");
ThreadGetenv(t) ==
    /\ threads[t].pc = "getenv"
    /\ threads' = [threads EXCEPT ![t].pc = "setenv",
                                  ![t].old_tz = [set |-> env.set, TZ |-> env.TZ]]
    /\ UNCHANGED <<dt, other, pre, op, ret, buf, call, span, env, g_holidays>>

\* setenv("TZ", "UTC", 1); tzset();
ThreadSetenv(t) ==
    /\ threads[t].pc = "setenv"
    /\ env' = setenv_TZ(env, "UTC")
    /\ threads' = [threads EXCEPT ![t].pc = "mktime"]
    /\ UNCHANGED <<dt, other, pre, op, ret, buf, call, span, g_holidays>>

\* result = mktime(tm);
ThreadMktime(t) ==
    /\ threads[t].pc = "mktime"
    /\ threads' = [threads EXCEPT ![t].pc = "restore",
                                  ![t].result = mktime(tm_of(DateOf(t)), env)]
    /\ UNCHANGED <<dt, other, pre, op, ret, buf, call, span, env, g_holidays>>

\* if (old_tz) setenv("TZ", old_tz, 1); else unsetenv("TZ");  tzset();
ThreadRestore(t) ==
    /\ threads[t].pc = "restore"
    /\ env' = IF threads[t].old_tz.set THEN setenv_TZ(env, threads[t].old_tz.TZ)
              ELSE unsetenv_TZ(env)
    /\ threads' = [threads EXCEPT ![t].pc = "store"]
    /\ UNCHANGED <<dt, other, pre, op, ret, buf, call, span, g_holidays>>

\* gmtime_r(&t, &tm); dt->weekday = tm.tm_wday; dt->yearday = tm.tm_yday + 1;
\* op tells when both calls have returned.
ThreadStore(t) ==
    /\ threads[t].pc = "store"
    /\ LET tm == gmtime_r(threads[t].result)
           d == [DateOf(t) EXCEPT !.weekday = tm.tm_wday, !.yearday = tm.tm_yday + 1]
       IN  IF t = 1 THEN dt' = d /\ other' = other ELSE other' = d /\ dt' = dt
    /\ threads' = [threads EXCEPT ![t].pc = "done"]
    /\ op' = IF \A u \in ThreadIds \ {t} : threads[u].pc = "done"
             THEN "normalize_concurrently" ELSE op
    /\ UNCHANGED <<pre, ret, buf, call, span, env, g_holidays>>

ThreadDates ==
    { make_date(2024, 6, 1, 12, 0, 0, 0, 0, 0, MASK_YMDHMS),
      make_date(2024, 12, 31, 23, 30, 0, 0, 0, 0, MASK_YMDHMS),
      make_date(2025, 3, 1, 2, 15, 0, 0, 0, 0, MASK_YMDHMS) }

ThreadEnvs ==
    { [set |-> TRUE, TZ |-> "UTC", localtime |-> 0],
      [set |-> TRUE, TZ |-> "EST5", localtime |-> 0],
      [set |-> TRUE, TZ |-> "JST-9", localtime |-> 0],
      [set |-> FALSE, TZ |-> "", localtime |-> 0],
      [set |-> FALSE, TZ |-> "", localtime |-> -18000] }

\* `pre' and `call' keep what the two calls were started with.
InitThreads ==
    /\ dt \in ThreadDates
    /\ other \in ThreadDates \ {dt}
    /\ env \in ThreadEnvs
    /\ pre = dt
    /\ call = [b |-> other, env |-> env]
    /\ threads = [t \in ThreadIds |->
                     [pc |-> "getenv", old_tz |-> [set |-> FALSE, TZ |-> ""],
                      result |-> Sec64(0, 0)]]
    /\ op = "init"
    /\ ret = 0
    /\ buf = ""
    /\ span = NoSpan
    /\ g_holidays = NoRegistry

NextThreads ==
    \E t \in ThreadIds :
        \/ ThreadGetenv(t)
        \/ ThreadSetenv(t)
        \/ ThreadMktime(t)
        \/ ThreadRestore(t)
        \/ ThreadStore(t)

SpecThreads == InitThreads /\ [][NextThreads]_vars

-----------------------------------------------------------------------------
(* SpecNull: each operation of date.c and span.c called with a null pointer *)
(* for one required parameter.  An operation that tests the pointer first   *)
(* returns the value of its guard and touches nothing; one that does not    *)
(* reads or writes through the null pointer, which is undefined: the call   *)
(* may then return anything or not return.                                  *)

\* For every operation and required pointer parameter: whether the code
\* tests the pointer before its first use (`guard', with the value the guard
\* returns, "void" for a plain return) or uses it unguarded.
NullCalls ==
    { [fn |-> "fossil_time_date_validate",          param |-> "dt",        guard |-> FALSE, returns |-> "none"],
      [fn |-> "fossil_time_date_normalize",         param |-> "dt",        guard |-> FALSE, returns |-> "none"],
      [fn |-> "fossil_time_date_compare",           param |-> "a",         guard |-> FALSE, returns |-> "none"],
      [fn |-> "fossil_time_date_compare",           param |-> "b",         guard |-> FALSE, returns |-> "none"],
      [fn |-> "fossil_time_date_diff_seconds",      param |-> "a",         guard |-> FALSE, returns |-> "none"],
      [fn |-> "fossil_time_date_diff_seconds",      param |-> "b",         guard |-> FALSE, returns |-> "none"],
      [fn |-> "fossil_time_date_to_unix_seconds",   param |-> "dt",        guard |-> FALSE, returns |-> "none"],
      [fn |-> "fossil_time_date_from_unix_seconds", param |-> "dt",        guard |-> FALSE, returns |-> "none"],
      [fn |-> "fossil_time_date_format",            param |-> "dt",        guard |-> TRUE,  returns |-> "0"],
      [fn |-> "fossil_time_date_format",            param |-> "buffer",    guard |-> TRUE,  returns |-> "0"],
      [fn |-> "fossil_time_date_format",            param |-> "format_id", guard |-> FALSE, returns |-> "none"],
      [fn |-> "fossil_time_date_format_smart",      param |-> "dt",        guard |-> TRUE,  returns |-> "0"],
      [fn |-> "fossil_time_date_format_smart",      param |-> "now",       guard |-> TRUE,  returns |-> "0"],
      [fn |-> "fossil_time_date_format_smart",      param |-> "buffer",    guard |-> TRUE,  returns |-> "0"],
      [fn |-> "fossil_time_date_search",            param |-> "dt",        guard |-> TRUE,  returns |-> "0"],
      [fn |-> "fossil_time_date_search",            param |-> "query",     guard |-> TRUE,  returns |-> "0"],
      [fn |-> "fossil_time_span_validate",          param |-> "span",      guard |-> TRUE,  returns |-> "0"],
      [fn |-> "fossil_time_span_normalize",         param |-> "span",      guard |-> TRUE,  returns |-> "void"],
      [fn |-> "fossil_time_span_add",               param |-> "result",    guard |-> TRUE,  returns |-> "void"],
      [fn |-> "fossil_time_span_sub",               param |-> "a",         guard |-> TRUE,  returns |-> "void"],
      [fn |-> "fossil_time_span_to_seconds",        param |-> "span",      guard |-> TRUE,  returns |-> "0"],
      [fn |-> "fossil_time_span_to_nanoseconds",    param |-> "span",      guard |-> TRUE,  returns |-> "0"],
      [fn |-> "fossil_time_span_format",            param |-> "span",      guard |-> TRUE,  returns |-> "-1"],
      [fn |-> "fossil_time_span_format",            param |-> "buffer",    guard |-> TRUE,  returns |-> "-1"],
      [fn |-> "fossil_time_span_format",            param |-> "format_id", guard |-> TRUE,  returns |-> "-1"] }

\* The int a guard returns; a void operation leaves no value.
GuardValue(c) == IF c.returns = "-1" THEN -1 ELSE 0

\* What a call may leave in the buffer after undefined behaviour.
GarbageText == "??"

\* The caller's other objects (the other date, the buffer, the span) are the
\* ones it passes for the parameters that are not null.  `call' tells which
\* operation and parameter, whether the null pointer was used, and whether
\* the call returned.
CallWithNull ==
    /\ op = "init"
    /\ \E c \in NullCalls :
          IF c.guard
          THEN /\ call' = [fn |-> c.fn, param |-> c.param, dereferenced |-> FALSE,
                           returned |-> TRUE]
               /\ ret' = GuardValue(c)
               /\ UNCHANGED <<dt, other, buf, span>>
          ELSE /\ \E returned \in BOOLEAN :
                     call' = [fn |-> c.fn, param |-> c.param, dereferenced |-> TRUE,
                              returned |-> returned]
               /\ ret' \in {-1, 0, 1}
               /\ buf' \in {buf, GarbageText}
               /\ UNCHANGED <<dt, other, span>>
    /\ op' = "call_with_null"
    /\ pre' = dt
    /\ UNCHANGED <<env, threads, g_holidays>>

InitNull ==
    /\ \E y \in FormatYears :
          dt = make_date(y, 6, 1, 12, 34, 56, 7, 8, 9, MASK_YMDHMS)
    /\ \E y \in FormatYears :
          other = make_date(y, 1, 2, 3, 4, 5, 0, 0, 0, MASK_YMDHMS)
    /\ \E d \in {0, 3} :
          span = make_span(d, 1, 2, 3, 4, 5, 6, {"days", "hours"})
    /\ pre = ZeroDate
    /\ op = "init"
    /\ ret = 0
    /\ buf = StaleText
    /\ call = NoCall
    /\ env = NoEnv /\ threads = NoThreads /\ g_holidays = NoRegistry

NextNull == CallWithNull

SpecNull == InitNull /\ [][NextNull]_vars

-----------------------------------------------------------------------------
(* The proleptic Gregorian calendar, stated independently of the code *)

GregorianLeap(y) == (y % 4 = 0 /\ y % 100 # 0) \/ y % 400 = 0

GregorianMonthLength(y, m) ==
    CASE m \in {1, 3, 5, 7, 8, 10, 12} -> 31
      [] m \in {4, 6, 9, 11} -> 30
      [] m = 2 -> IF GregorianLeap(y) THEN 29 ELSE 28
      [] OTHER -> 0

ValidCivil(y, m, d) == m \in 1 .. 12 /\ d \in 1 .. GregorianMonthLength(y, m)

\* Days from 1970-01-01 to y-m-d: whole years, then whole months, then days.
GregorianDayOfYear(y, m, d) ==
    LET len(k) == GregorianMonthLength(y, k)
        before == [k \in 1 .. 12 |->
                     IF k = 1 THEN 0 ELSE
                     len(1) + (IF k > 2 THEN len(2) ELSE 0) + (IF k > 3 THEN len(3) ELSE 0)
                     + (IF k > 4 THEN len(4) ELSE 0) + (IF k > 5 THEN len(5) ELSE 0)
                     + (IF k > 6 THEN len(6) ELSE 0) + (IF k > 7 THEN len(7) ELSE 0)
                     + (IF k > 8 THEN len(8) ELSE 0) + (IF k > 9 THEN len(9) ELSE 0)
                     + (IF k > 10 THEN len(10) ELSE 0) + (IF k > 11 THEN len(11) ELSE 0)]
    IN  before[m] + d

EpochDay(y, m, d) ==
    LET p == y - 1
    IN  365 * p + (p \div 4) - (p \div 100) + (p \div 400)
        + GregorianDayOfYear(y, m, d) - 719163

AllYMD(mask) == HasBit(mask, FOSSIL_TIME_PRECISION_YEAR)
                /\ HasBit(mask, FOSSIL_TIME_PRECISION_MONTH)
                /\ HasBit(mask, FOSSIL_TIME_PRECISION_DAY)

-----------------------------------------------------------------------------
(* Claims *)

\* C3: after normalize, weekday and yearday are the values derived from
\* year/month/day when the YEAR, MONTH and DAY bits are all set (for a date
\* whose fields are in range), and both are -1 when any of the three is clear.
C3_NormalizeDerivedOrUnknown ==
    op = "normalize" =>
        IF AllYMD(pre.precision_mask)
        THEN (ValidCivil(pre.year, pre.month, pre.day)
              /\ fossil_time_date_validate(pre) = 1) =>
                 /\ dt.weekday = (EpochDay(pre.year, pre.month, pre.day) + 4) % 7
                 /\ dt.yearday = GregorianDayOfYear(pre.year, pre.month, pre.day)
        ELSE dt.weekday = -1 /\ dt.yearday = -1

SameMasked(d) ==
    LET m == d.precision_mask
        ys == IF HasBit(m, FOSSIL_TIME_PRECISION_YEAR) THEN {d.year} ELSE MaskYears
        ms == IF HasBit(m, FOSSIL_TIME_PRECISION_MONTH) THEN {d.month} ELSE MonthVals
        ds == IF HasBit(m, FOSSIL_TIME_PRECISION_DAY) THEN {d.day} ELSE DayVals
        hs == IF HasBit(m, FOSSIL_TIME_PRECISION_HOUR) THEN {d.hour} ELSE HourVals
        ns == IF HasBit(m, FOSSIL_TIME_PRECISION_MINUTE) THEN {d.minute} ELSE MinuteVals
        ss == IF HasBit(m, FOSSIL_TIME_PRECISION_SECOND) THEN {d.second} ELSE SecondVals
    IN  {[d EXCEPT !.year = y, !.month = mo, !.day = da,
                   !.hour = h, !.minute = mi, !.second = sec] :
            y \in ys, mo \in ms, da \in ds, h \in hs, mi \in ns, sec \in ss}

\* C5: the result of validate depends only on the masked fields: every date
\* with the same mask and the same masked values validates the same way, and
\* a date with only the YEAR bit validates true.
C5_ValidateReadsOnlyMasked ==
    op = "validate" =>
        /\ \A e \in SameMasked(pre) : fossil_time_date_validate(e) = ret
        /\ pre.precision_mask = FOSSIL_TIME_PRECISION_YEAR => ret = 1


\* The calendar day after y-m-d.
NextCivil(y, m, d) ==
    IF d < GregorianMonthLength(y, m) THEN <<y, m, d + 1>>
    ELSE IF m < 12 THEN <<y, m + 1, 1>>
    ELSE <<y + 1, 1, 1>>

\* C1: for a date with year 1..9999, a real calendar day, hour 0..23,
\* minute 0..59, second 0..59 and tz_offset_min = 0,
\* from_unix_seconds(to_unix_seconds(dt)) has the same year, month, day,
\* hour, minute and second.
C1_UnixRoundTrip ==
    (/\ op = "from_unix"
     /\ pre.year \in 1 .. 9999
     /\ ValidCivil(pre.year, pre.month, pre.day)
     /\ pre.hour \in 0 .. 23 /\ pre.minute \in 0 .. 59 /\ pre.second \in 0 .. 59
     /\ pre.tz_offset_min = 0)
    => /\ dt.year = pre.year /\ dt.month = pre.month /\ dt.day = pre.day
       /\ dt.hour = pre.hour /\ dt.minute = pre.minute /\ dt.second = pre.second

\* C1 witness: the last second of year 9999 went through the round trip.
C1_Witness ==
    /\ op = "from_unix"
    /\ pre.year = 9999 /\ pre.month = 12 /\ pre.day = 31
    /\ pre.hour = 23 /\ pre.minute = 59 /\ pre.second = 59
    /\ pre.tz_offset_min = 0
    /\ dt.year = 9999 /\ dt.month = 12 /\ dt.day = 31 /\ dt.second = 59

\* C2: for a real calendar day, to_unix_seconds is
\* 86400*D + 3600*hour + 60*minute + second - 60*tz_offset_min with D the
\* day count from 1970-01-01: D is negative before 1970, and the next
\* calendar day (across month ends, year ends and leap days) is exactly
\* 86400 seconds later.
C2_UnixSecondsFormula ==
    (op = "to_unix" /\ ValidCivil(pre.year, pre.month, pre.day)) =>
        LET D    == EpochDay(pre.year, pre.month, pre.day)
            tod  == 3600 * pre.hour + 60 * pre.minute + pre.second
                    - 60 * pre.tz_offset_min
            nd   == NextCivil(pre.year, pre.month, pre.day)
            next == [pre EXCEPT !.year = nd[1], !.month = nd[2], !.day = nd[3]]
            midnight == [pre EXCEPT !.hour = 0, !.minute = 0, !.second = 0,
                                    !.tz_offset_min = 0]
        IN  /\ ret = Sec64(D, tod)
            /\ fossil_time_date_to_unix_seconds(next) = Sec64(ret.q + 1, ret.r)
            /\ (fossil_time_date_to_unix_seconds(midnight).q < 0) = (pre.year < 1970)
            /\ (pre.year = 1970 /\ pre.month = 1 /\ pre.day = 1) =>
                  fossil_time_date_to_unix_seconds(midnight) = [q |-> 0, r |-> 0]

\* C2 witness: a leap day with a zone offset east of UTC at midnight was
\* converted, which lands on the previous UTC day.
C2_Witness ==
    /\ op = "to_unix"
    /\ pre.year = 2000 /\ pre.month = 2 /\ pre.day = 29
    /\ pre.hour = 0 /\ pre.tz_offset_min = 330
    /\ ret = [q |-> 11015, r |-> 66600]


\* The nine fields compare reads, in its order.
CompareKey(d) ==
    <<d.year, d.month, d.day, d.hour, d.minute, d.second,
      d.millisecond, d.microsecond, d.nanosecond>>

\* Lexicographic order of two equally long tuples of integers.
LexLess(x, y) ==
    \E i \in 1 .. Len(x) : x[i] < y[i] /\ \A j \in 1 .. (i - 1) : x[j] = y[j]

EpochWeekday(y, m, d) == (fossil_time_days_from_civil(y, m, d) + 4) % 7

\* C7: for every valid date with year in 1..9999 the Zeller weekday computed
\* by compute_weekday (calendar) and by weekday_of (holiday) equals
\* (days_from_civil(year, month, day) + 4) mod 7.
C7_ZellerAgreesWithEpochDay ==
    (/\ pre.year \in 1 .. 9999
     /\ ValidCivil(pre.year, pre.month, pre.day)) =>
        /\ (op = "compute_derived" /\ AllYMD(pre.precision_mask)) =>
               dt.weekday = EpochWeekday(pre.year, pre.month, pre.day)
        /\ op = "set_date" =>
               other.weekday = EpochWeekday(pre.year, pre.month, pre.day)
        /\ op \in {"compute_derived", "set_date"} =>
               /\ compute_weekday(pre.year, pre.month, pre.day)
                    = EpochWeekday(pre.year, pre.month, pre.day)
               /\ weekday_of(pre.year, pre.month, pre.day)
                    = EpochWeekday(pre.year, pre.month, pre.day)

\* C7 witness: the derived fields of the leap day 2024-02-29 were computed,
\* and it is a Thursday.
C7_Witness ==
    /\ op = "compute_derived"
    /\ pre.year = 2024 /\ pre.month = 2 /\ pre.day = 29
    /\ AllYMD(pre.precision_mask)
    /\ dt.weekday = 4


\* Two and four decimal digits of a number in 0..99 and 0..9999.
D2(n) == Digit(n \div 10) \o Digit(n % 10)
D4(n) == D2(n \div 100) \o D2(n % 100)

IsoDate(d) == D4(d.year) \o "-" \o D2(d.month) \o "-" \o D2(d.day)
IsoTime(d) == D2(d.hour) \o ":" \o D2(d.minute) \o ":" \o D2(d.second)

AnyYMDHMS(mask) == \E bit \in {1, 2, 4, 8, 16, 32} : HasBit(mask, bit)
AllYMDHMS(mask) == \A bit \in {1, 2, 4, 8, 16, 32} : HasBit(mask, bit)

\* d with every field whose bit is not in the mask replaced by another value.
Unmasked(d) ==
    LET keep(bit, v) == IF HasBit(d.precision_mask, bit) THEN v ELSE 99 - v
    IN  [d EXCEPT !.year = keep(FOSSIL_TIME_PRECISION_YEAR, @),
                  !.month = keep(FOSSIL_TIME_PRECISION_MONTH, @),
                  !.day = keep(FOSSIL_TIME_PRECISION_DAY, @),
                  !.hour = keep(FOSSIL_TIME_PRECISION_HOUR, @),
                  !.minute = keep(FOSSIL_TIME_PRECISION_MINUTE, @),
                  !.second = keep(FOSSIL_TIME_PRECISION_SECOND, @),
                  !.millisecond = keep(FOSSIL_TIME_PRECISION_MILLI, @),
                  !.microsecond = keep(FOSSIL_TIME_PRECISION_MICRO, @)]

\* C8: format "iso" into a buffer that holds the text renders only the masked
\* fields, zero-padded: the mask YEAR|MONTH|DAY gives "YYYY-MM-DD" and nothing
\* more, the mask YEAR..SECOND gives "YYYY-MM-DDThh:mm:ssZ", fields outside the
\* mask have no influence on the text, and the returned value is the number
\* of characters written.
C8_FormatIsoMasked ==
    (op = "format" /\ call.format_id = "iso" /\ call.buffer_size = 64) =>
        /\ ~call.ub
        /\ (pre.year \in 0 .. 9999 /\ pre.precision_mask = MASK_YMD) =>
               buf = IsoDate(pre) /\ ret = 10
        /\ (pre.year \in 0 .. 9999 /\ pre.precision_mask = MASK_YMDHMS) =>
               buf = IsoDate(pre) \o "T" \o IsoTime(pre) \o "Z" /\ ret = 20
        /\ LET r == fossil_time_date_format(Unmasked(pre), StaleText, 64, "iso")
           IN  r.text = buf /\ r.n = ret
        /\ IF AnyYMDHMS(pre.precision_mask)
           THEN ret = Len(buf)
           ELSE ret = 0 /\ buf = StaleText

\* C8 witness: 2024-06-01 12:34:56 with YEAR..SECOND was formatted as "iso"
\* into a 64-byte buffer and gave the 20 characters "2024-06-01T12:34:56Z".
C8_Witness ==
    /\ op = "format" /\ call.format_id = "iso" /\ call.buffer_size = 64
    /\ pre = make_date(2024, 6, 1, 12, 34, 56, 0, 500, 0, MASK_YMDHMS)
    /\ buf = "2024-06-01T12:34:56Z"
    /\ ret = 20

\* C9: format "log" writes exactly "YYYYMMDD-hhmmss" for every date whose
\* YEAR..SECOND bits are set (here into a buffer that holds it).
C9_FormatLog ==
    (/\ op = "format" /\ call.format_id = "log" /\ call.buffer_size = 64
     /\ pre.year \in 0 .. 9999
     /\ AllYMDHMS(pre.precision_mask)) =>
        buf = D4(pre.year) \o D2(pre.month) \o D2(pre.day) \o "-"
              \o D2(pre.hour) \o D2(pre.minute) \o D2(pre.second)

\* C10: an unrecognised format_id makes format write the literal text
\* "invalid_date" (here into a buffer that holds it), whatever the date and
\* its mask.
C10_FormatUnknownId ==
    (/\ op = "format" /\ call.format_id = "unknown"
     /\ call.buffer_size = 64) =>
        buf = "invalid_date"


\* C11: for every date, mask and buffer_size >= 1, format writes only inside
\* the buffer, leaves it terminated (the text it holds is shorter than the
\* buffer and is the start of the full text), and returns the length of the
\* full text also when that text does not fit.  Stated for the masks that
\* render some text, i.e. have a YEAR..SECOND bit.
C11_FormatStaysInBuffer ==
    (/\ op = "format" /\ call.buffer_size >= 1
     /\ AnyYMDHMS(pre.precision_mask)) =>
        LET full == fossil_time_date_format(pre, "", 64, call.format_id)
        IN  /\ ~call.ub
            /\ Len(buf) < call.buffer_size
            /\ buf = SubSeq(full.text, 1, Len(buf))
            /\ ret = full.n


\* The exact duration of a span, over all rungs from days to nanoseconds, as
\* [s, n]: whole seconds and 0 <= n < 10^9 nanoseconds.
SpanDuration(s) ==
    LET micro == s.milliseconds * 1000 + s.microseconds
        nano == (micro % 1000000) * 1000 + s.nanoseconds
        secs == s.minutes * 60 + s.seconds + (micro \div 1000000)
                + (nano \div NanosPerSecond)
    IN  [s |-> Sec64(s.days + (s.hours \div 24), (s.hours % 24) * 3600 + secs),
         n |-> nano % NanosPerSecond]

SpanNonNegative(s) ==
    \A f \in {"days", "hours", "minutes", "seconds", "milliseconds",
              "microseconds", "nanoseconds"} : s[f] >= 0

\* C12: normalize of a span with non-negative fields leaves nanoseconds,
\* microseconds and milliseconds in 0..999, seconds and minutes in 0..59 and
\* hours in 0..23, keeps the total duration, and changes nothing but the
\* seven rungs from days to nanoseconds.
C12_SpanNormalizeCarries ==
    (op = "span_normalize" /\ SpanNonNegative(pre)) =>
        /\ span.nanoseconds \in 0 .. 999
        /\ span.microseconds \in 0 .. 999
        /\ span.milliseconds \in 0 .. 999
        /\ span.seconds \in 0 .. 59
        /\ span.minutes \in 0 .. 59
        /\ span.hours \in 0 .. 23
        /\ span.days >= pre.days
        /\ SpanDuration(span) = SpanDuration(pre)
        /\ span.precision_mask = pre.precision_mask

\* C12 witness: {hours 23, minutes 59, seconds 59, ms 999, us 999, ns 1001}
\* was normalized into one more day, ns = 1 and every rung between 0.
C12_Witness ==
    /\ op = "span_normalize"
    /\ pre.days = 3 /\ pre.hours = 23 /\ pre.minutes = 59 /\ pre.seconds = 59
    /\ pre.milliseconds = 999 /\ pre.microseconds = 999 /\ pre.nanoseconds = 1001
    /\ span = make_span(4, 0, 0, 0, 0, 0, 1, pre.precision_mask)


\* C13: add gives every one of the twelve rungs the sum a.f + b.f and sub the
\* difference a.f - b.f, rung by rung with no carry or borrow, the mask of
\* the result is a.mask | b.mask, and sub(add(a, b), b) has the field values
\* of a.
C13_SpanAddSubFieldwise ==
    /\ op = "span_add" =>
          /\ \A f \in SpanRungs : span[f] = pre[f] + call.b[f]
          /\ span.precision_mask = pre.precision_mask \cup call.b.precision_mask
    /\ op = "span_sub" =>
          /\ \A f \in SpanRungs : span[f] = pre[f] - call.b[f]
          /\ span.precision_mask = pre.precision_mask \cup call.b.precision_mask
    /\ op = "span_add_sub" =>
          /\ \A f \in SpanRungs : span[f] = pre[f]
          /\ span.precision_mask = pre.precision_mask \cup call.b.precision_mask

\* C13 witness: b was added to a and subtracted again; a's rungs are back, a
\* rung of b was not zero, and the mask has grown by b's bits.
C13_Witness ==
    /\ op = "span_add_sub"
    /\ call.b.yoctoseconds = 7 /\ call.b.hours = 1
    /\ [span EXCEPT !.precision_mask = pre.precision_mask] = pre
    /\ span.precision_mask # pre.precision_mask


\* s with every rung outside its mask, and every rung not in `rungs', at 0.
SpanMasked(s, rungs) ==
    [f \in DOMAIN s |->
        IF f = "precision_mask" \/ (f \in s.precision_mask /\ f \in rungs)
        THEN s[f] ELSE 0]

\* C14: to_seconds returns days*86400 + hours*3600 + minutes*60 + seconds
\* summed over the rungs whose bit is set only, and to_nanoseconds that sum
\* times 10^9 plus the masked milliseconds, microseconds and nanoseconds.
C14_SpanToSecondsMasked ==
    /\ op = "span_to_seconds" =>
          ret = SpanDuration(SpanMasked(pre, {"days", "hours", "minutes", "seconds"})).s
    /\ op = "span_to_nanoseconds" =>
          ret = SpanDuration(SpanMasked(pre, {"days", "hours", "minutes", "seconds",
                                              "milliseconds", "microseconds",
                                              "nanoseconds"}))


\* The field a query word names, by the alias list of the search DSL.
AliasField(word) ==
    CASE word \in {"year", "y"} -> "year"
      [] word \in {"month", "mon", "m"} -> "month"
      [] word \in {"day", "d"} -> "day"
      [] word \in {"hour", "h"} -> "hour"
      [] word \in {"minute", "min"} -> "minute"
      [] word \in {"second", "sec", "s"} -> "second"
      [] word \in {"weekday", "wday", "dow"} -> "weekday"
      [] word \in {"yearday", "yday"} -> "yearday"
      [] word \in {"millisecond", "ms"} -> "millisecond"
      [] word \in {"microsecond", "us"} -> "microsecond"
      [] word \in {"nanosecond", "ns"} -> "nanosecond"
      [] word \in {"tz_offset", "tz", "offset"} -> "tz_offset_min"

\* The relation an operator names.
Related(x, o, y) ==
    CASE o \in {"=", "==", "is", "equals"} -> x = y
      [] o \in {"!=", "is not"} -> x # y
      [] o \in {"<", "before"} -> x < y
      [] o \in {">", "after"} -> x > y
      [] o \in {"<=", "on or before"} -> x <= y
      [] o \in {">=", "on or after"} -> x >= y

\* C15: search(dt, now, "<field> <op> <value>") is true iff the stored value
\* of the field the alias names stands in the relation the operator names to
\* the value, for every alias, every symbolic and English operator (a phrase
\* is read whole: "is not" is never "is") and every value, whatever now
\* (absent or not) and the mask are.
C15_SearchComparesField ==
    op = "search_compare" =>
        ret = (IF Related(pre[AliasField(call.field)], call.operator, call.value)
               THEN 1 ELSE 0)

\* C15 witness: "tz is not 4" was true of a date with zone offset -5 and no
\* mask bit, with now absent.
C15_Witness ==
    /\ op = "search_compare"
    /\ call.query = "tz is not 4"
    /\ pre.tz_offset_min = -5 /\ pre.precision_mask = 0
    /\ other = NULL
    /\ ret = 1


\* C16: search(dt, now, "<field> in <a>..<b>") is true iff a <= field <= b,
\* both ends included, with the aliases of the comparisons; it is false for
\* every field value when a > b.
C16_SearchRangeInclusive ==
    op = "search_range" =>
        /\ ret = (IF /\ call.start <= pre[AliasField(call.field)]
                     /\ pre[AliasField(call.field)] <= call.end
                  THEN 1 ELSE 0)
        /\ call.start > call.end => ret = 0

\* C16 witness: "yday in -5..6" was true of a date whose yearday is 6, the
\* upper end.
C16_Witness ==
    /\ op = "search_range"
    /\ call.query = "yday in -5..6"
    /\ pre.yearday = 6
    /\ ret = 1


\* The keywords that are relative to now.
NowKeywords ==
    {"today", "this day", "past", "in the past", "future", "in the future",
     "before today", "before now", "after today", "after now"}

\* C17: "weekend" is true iff weekday is 0 or 6 and "weekday" iff weekday is
\* in 1..5, so both are false at weekday -1; "today" is true iff year, month
\* and day equal now's; and every keyword relative to now is false when now
\* is absent.
C17_SearchKeywords ==
    op = "search_keyword" =>
        /\ call.query = "weekend" => (ret = 1 <=> pre.weekday \in {0, 6})
        /\ call.query = "weekday" => (ret = 1 <=> pre.weekday \in 1 .. 5)
        /\ call.query \in {"weekend", "weekday"} /\ pre.weekday = -1 => ret = 0
        /\ call.query = "today" /\ other # NULL =>
              (ret = 1 <=> /\ pre.year = other.year
                           /\ pre.month = other.month
                           /\ pre.day = other.day)
        /\ call.query \in NowKeywords /\ other = NULL => ret = 0
        /\ ret \in {0, 1}

\* C17 witness: "weekend" was true of a date whose weekday is 0, with now
\* absent.
C17_Witness ==
    /\ op = "search_keyword"
    /\ call.query = "weekend"
    /\ pre.weekday = 0
    /\ other = NULL
    /\ ret = 1


\* The units of a relative description, coarsest first, with their sizes in
\* seconds.
RelativeUnits ==
    << <<"year", 31536000>>, <<"month", 2592000>>, <<"week", 604800>>,
       <<"day", 86400>>, <<"hour", 3600>>, <<"minute", 60>>, <<"second", 1>> >>

\* The description of a difference of `diff' seconds (|diff| < 2^31).
RelativeText(diff) ==
    LET a == IF diff < 0 THEN 0 - diff ELSE diff
        k == CHOOSE i \in 1 .. 7 :
                /\ RelativeUnits[i][2] <= a
                /\ \A j \in 1 .. i - 1 : RelativeUnits[j][2] > a
        n == a \div RelativeUnits[k][2]
        word == RelativeUnits[k][1] \o (IF n = 1 THEN "" ELSE "s")
    IN  IF diff = 0 THEN "now"
        ELSE IF diff > 0 THEN "in " \o IntText(n) \o " " \o word
        ELSE IntText(n) \o " " \o word \o " ago"

C19_YearOnlyIsJanuaryFirst ==
    (/\ op = "to_unix"
     /\ pre.precision_mask = FOSSIL_TIME_PRECISION_YEAR
     /\ pre.month = 0 /\ pre.day = 0
     /\ pre.hour = 0 /\ pre.minute = 0 /\ pre.second = 0
     /\ pre.tz_offset_min = 0)
    => ret = Sec64(EpochDay(pre.year, 1, 1), 0)


C21_NormalizeReentrant ==
    op = "normalize_concurrently" =>
        /\ dt = fossil_time_date_normalize(pre)
        /\ other = fossil_time_date_normalize(call.b)
        /\ env = call.env


\* C22: every Date and Span operation given a null pointer for a required
\* parameter returns its sentinel (0 or -1, nothing for a void operation)
\* without using the pointer and without changing any output: the dates,
\* the buffer and the span are as they were.  This holds for validate,
\* normalize, compare, diff_seconds, to_unix_seconds and from_unix_seconds
\* as for format, format_smart, search and the span formatter, and for a
\* null format_id given to fossil_time_date_format.
C22_NullReturnsSentinel ==
    op = "call_with_null" =>
        /\ ~call.dereferenced
        /\ call.returned
        /\ ret \in {0, -1}
        /\ buf = StaleText
        /\ dt = pre


\* C23: search(dt, now, "within N seconds") is true iff dt and now are at
\* most N seconds apart: for dt three seconds after now, "within 5 seconds"
\* is true and "within 1 second" is false.
C23_SearchWithin ==
    op = "search_within" /\ other # NULL =>
        LET d == fossil_time_date_diff_seconds(pre, other)
            apart == IF SecLess(d, SecZero) THEN SecSub(SecZero, d) ELSE d
        IN  ret = (IF ~SecLess(Sec64(0, call.n), apart) THEN 1 ELSE 0)

-----------------------------------------------------------------------------
\* The calendar's holiday lookup (calendar.c).  A rule holds the month, the
\* weekday tested (-1: none) and the range of days of one `if' of
\* fossil_time_calendar_get_holiday; day is an int8_t, so a test with one
\* bound only has the other at the end of the type's range.
HolidayRule(month, weekday, first, last, name) ==
    [month |-> month, weekday |-> weekday, first |-> first, last |-> last,
     name |-> name]

BaselineUS ==
    << HolidayRule(1, -1, 1, 1, "new_years_day"),
       HolidayRule(1, 1, 15, 21, "mlk_day"),
       HolidayRule(2, 1, 15, 21, "presidents_day"),
       HolidayRule(5, 1, 25, 127, "memorial_day"),
       HolidayRule(7, -1, 4, 4, "independence_day"),
       HolidayRule(9, 1, -128, 7, "labor_day"),
       HolidayRule(10, 1, 8, 14, "columbus_day"),
       HolidayRule(11, -1, 11, 11, "veterans_day"),
       HolidayRule(11, 4, 22, 28, "thanksgiving"),
       HolidayRule(12, -1, 25, 25, "christmas") >>

BaselineUK ==
    << HolidayRule(1, -1, 1, 1, "new_years_day"),
       HolidayRule(12, -1, 25, 25, "christmas"),
       HolidayRule(12, -1, 26, 26, "boxing_day") >>

BaselineCanada ==
    << HolidayRule(1, -1, 1, 1, "new_years_day"),
       HolidayRule(7, -1, 1, 1, "canada_day"),
       HolidayRule(12, -1, 25, 25, "christmas") >>

Baseline(region_id) ==
    IF region_id \in {"us", "us_federal"} THEN BaselineUS
    ELSE IF region_id \in {"uk", "gb"} THEN BaselineUK
    ELSE IF region_id \in {"ca", "canada"} THEN BaselineCanada
    ELSE << >>

RuleApplies(r, d) ==
    /\ d.month = r.month
    /\ r.weekday = -1 \/ d.weekday = r.weekday
    /\ d.day >= r.first /\ d.day <= r.last

\* The result of the call and the buffer after it: the length of the name of
\* the first rule that applies, the name stored by snprintf; -1 and the
\* buffer as it was when no rule applies or buffer_size is 0.
fossil_time_calendar_get_holiday(d, region_id, buffer, buffer_size) ==
    LET rules == Baseline(region_id)
        hits == {i \in 1 .. Len(rules) : RuleApplies(rules[i], d)}
    IN  IF buffer_size = 0 \/ hits = {}
        THEN [ret |-> -1, buffer |-> buffer]
        ELSE LET name == rules[CHOOSE i \in hits : \A j \in hits : i <= j].name
             IN  [ret |-> Len(name),
                  buffer |-> snprintf_at(Filling(buffer), buffer_size, name).text]

\* return fossil_time_calendar_get_holiday(dt, region_id, tmp, 32) == 0;
fossil_time_calendar_is_holiday(d, region_id) ==
    IF fossil_time_calendar_get_holiday(d, region_id, "", 32).ret = 0 THEN 1 ELSE 0

HolidayRegions == {"us", "us_federal", "uk", "gb", "ca", "canada", "eu"}
HolidayBufferSizes == {0, 8, 32}

CalendarIsHoliday ==
    /\ op = "init"
    /\ \E region_id \in HolidayRegions :
          /\ call' = [region_id |-> region_id]
          /\ ret' = fossil_time_calendar_is_holiday(dt, region_id)
    /\ op' = "is_holiday"
    /\ pre' = dt
    /\ UNCHANGED <<dt, other, buf, span, env, threads, g_holidays>>

CalendarGetHoliday ==
    /\ op = "init"
    /\ \E region_id \in HolidayRegions, buffer_size \in HolidayBufferSizes :
          LET r == fossil_time_calendar_get_holiday(dt, region_id, buf, buffer_size)
          IN  /\ call' = [region_id |-> region_id, buffer_size |-> buffer_size]
              /\ ret' = r.ret
              /\ buf' = r.buffer
    /\ op' = "get_holiday"
    /\ pre' = dt
    /\ UNCHANGED <<dt, other, span, env, threads, g_holidays>>

\* SpecHoliday: every day of a leap year and of a common year, with the
\* weekday the calendar derives for it.
HolidayYears == {2024, 2026}

InitHoliday ==
    /\ \E y \in HolidayYears, m \in 1 .. 12 :
          \E d \in 1 .. days_in_month(y, m) :
             dt = fossil_time_calendar_compute_derived(
                      make_date(y, m, d, 0, 0, 0, 0, 0, 0, MASK_YMD))
    /\ other = ZeroDate
    /\ pre = ZeroDate
    /\ op = "init"
    /\ ret = 0
    /\ buf = StaleText
    /\ env = NoEnv /\ threads = NoThreads /\ g_holidays = NoRegistry
    /\ call = NoCall
    /\ span = NoSpan

NextHoliday == CalendarIsHoliday \/ CalendarGetHoliday

SpecHoliday == InitHoliday /\ [][NextHoliday]_vars

\* C24: fossil_time_calendar_is_holiday(dt, region) returns 1 exactly when
\* fossil_time_calendar_get_holiday finds a holiday for that date and region
\* (for "us": January 1, July 4, December 25, ...), and 0 otherwise.
C24_IsHolidayAgreesWithGetHoliday ==
    op = "is_holiday" =>
        ret = (IF fossil_time_calendar_get_holiday(pre, call.region_id, "", 32).ret # -1
               THEN 1 ELSE 0)

-----------------------------------------------------------------------------
\* The holiday registry and the holiday dates (holiday.c).
FOSSIL_HOLIDAY_FIXED == 0
FOSSIL_HOLIDAY_WEEKDAY == 1
FOSSIL_HOLIDAY_RELATIVE == 2
FOSSIL_HOLIDAY_CUSTOM == 3

FOSSIL_MAX_HOLIDAYS == 128

\* A fossil_holiday_t.  relative_to is a null pointer in every entry that is
\* not RELATIVE and is never read there; the model holds "" in its place.
Holiday(name, type, month, day, weekday, nth, offset_days, relative_to) ==
    [name |-> name, type |-> type, month |-> month, day |-> day,
     weekday |-> weekday, nth |-> nth, offset_days |-> offset_days,
     relative_to |-> relative_to]

\* The table register_us_holidays stores when the registry is empty; the
\* load-time constructor fossil_holiday_init calls it.
register_us_holidays ==
    << Holiday("New Year's Day", FOSSIL_HOLIDAY_FIXED, 1, 1, 0, 0, 0, ""),
       Holiday("MLK Day", FOSSIL_HOLIDAY_WEEKDAY, 1, 0, 1, 3, 0, ""),
       Holiday("Presidents Day", FOSSIL_HOLIDAY_WEEKDAY, 2, 0, 1, 3, 0, ""),
       Holiday("Memorial Day", FOSSIL_HOLIDAY_WEEKDAY, 5, 0, 1, 5, 0, ""),
       Holiday("Juneteenth", FOSSIL_HOLIDAY_FIXED, 6, 19, 0, 0, 0, ""),
       Holiday("Independence Day", FOSSIL_HOLIDAY_FIXED, 7, 4, 0, 0, 0, ""),
       Holiday("Labor Day", FOSSIL_HOLIDAY_WEEKDAY, 9, 0, 1, 1, 0, ""),
       Holiday("Columbus Day", FOSSIL_HOLIDAY_WEEKDAY, 10, 0, 1, 2, 0, ""),
       Holiday("Veterans Day", FOSSIL_HOLIDAY_FIXED, 11, 11, 0, 0, 0, ""),
       Holiday("Thanksgiving", FOSSIL_HOLIDAY_WEEKDAY, 11, 0, 4, 4, 0, ""),
       Holiday("Christmas", FOSSIL_HOLIDAY_FIXED, 12, 25, 0, 0, 0, "") >>

\* d = 1 + delta + (nth - 1) * 7, stored without a look at the month's length.
nth_weekday(year, month, weekday, nth) ==
    LET w == weekday_of(year, month, 1)
        delta == CMod(weekday - w + 7, 7)
    IN  set_date(year, month, 1 + delta + (nth - 1) * 7)

\* Saturday -> the day before, Sunday -> the day after, by day += -1 / +1
\* alone; then the weekday is computed again.
apply_observed(d) ==
    LET day == IF d.weekday = 6 THEN d.day - 1
               ELSE IF d.weekday = 0 THEN d.day + 1
               ELSE d.day
    IN  [d EXCEPT !.day = day, !.weekday = weekday_of(d.year, d.month, day)]

\* The first entry named `name': ret = 0 and its index, or ret = -1.
fossil_holiday_get(name) ==
    LET hits == {i \in 1 .. Len(g_holidays) : g_holidays[i].name = name}
    IN  IF hits = {} THEN [ret |-> -1, index |-> 0]
        ELSE [ret |-> 0, index |-> CHOOSE i \in hits : \A j \in hits : i <= j]

\* The two loops of the RELATIVE case.  days_in_month of holiday.c indexes
\* d[m - 1] with no test of m: a month outside 1..12 is a read outside the
\* array (ub).
RECURSIVE roll_forward(_, _, _)
roll_forward(year, month, day) ==
    IF month < 1 \/ month > 12 THEN [month |-> month, day |-> day, ub |-> TRUE]
    ELSE IF day > days_in_month(year, month)
    THEN roll_forward(year, month + 1, day - days_in_month(year, month))
    ELSE [month |-> month, day |-> day, ub |-> FALSE]

RECURSIVE roll_back(_, _, _)
roll_back(year, month, day) ==
    IF day >= 1 THEN [month |-> month, day |-> day, ub |-> FALSE]
    ELSE IF month - 1 < 1 \/ month - 1 > 12
    THEN [month |-> month - 1, day |-> day, ub |-> TRUE]
    ELSE roll_back(year, month - 1, day + days_in_month(year, month - 1))

\* fossil_holiday_date(h, year, out): the result and *out after the call
\* (`out' as it was when nothing is stored).  ub: the RELATIVE case read its
\* local date although the base's date was not computed, or a month left
\* 1..12 in the loops.  A RELATIVE entry that names itself is not modelled
\* (the C function recurses without end).
RECURSIVE fossil_holiday_date(_, _, _)
fossil_holiday_date(h, year, out) ==
    IF h = NULL THEN [ret |-> -1, out |-> out, ub |-> FALSE]
    ELSE IF h.type = FOSSIL_HOLIDAY_FIXED
    THEN [ret |-> 0, out |-> apply_observed(set_date(year, h.month, h.day)),
          ub |-> FALSE]
    ELSE IF h.type = FOSSIL_HOLIDAY_WEEKDAY
    THEN [ret |-> 0, out |-> nth_weekday(year, h.month, h.weekday, h.nth),
          ub |-> FALSE]
    ELSE IF h.type = FOSSIL_HOLIDAY_RELATIVE
    THEN LET got == fossil_holiday_get(h.relative_to)
         IN  IF got.ret # 0 THEN [ret |-> -1, out |-> out, ub |-> FALSE]
             ELSE LET base == fossil_holiday_date(g_holidays[got.index], year, ZeroDate)
                      up == roll_forward(year, base.out.month,
                                         base.out.day + h.offset_days)
                      down == IF up.ub THEN up ELSE roll_back(year, up.month, up.day)
                  IN  [ret |-> 0,
                       out |-> [base.out EXCEPT
                                  !.month = down.month, !.day = down.day,
                                  !.weekday = weekday_of(year, down.month, down.day)],
                       ub |-> base.ret # 0 \/ base.ub \/ down.ub]
    ELSE [ret |-> -1, out |-> out, ub |-> FALSE]

\* fossil_holiday_list(year, out_dates, max, &count): the first
\* min(g_holiday_count, max) slots receive the entries' dates in table order.
fossil_holiday_list(year, out_dates, max) ==
    LET n == Min(Len(g_holidays), max)
    IN  [ret |-> 0, count |-> n,
         dates |-> [i \in 1 .. Len(out_dates) |->
                      IF i <= n
                      THEN fossil_holiday_date(g_holidays[i], year, out_dates[i]).out
                      ELSE out_dates[i]]]

\* SpecHolidays: the registry as the load-time constructor leaves it; dates
\* are asked of its entries, of descriptors that are not registered, and of
\* a null descriptor.  `other' is *out, call.dates the caller's array.
HolidayDateYears == 1990 .. 2040
HolidayDescriptors ==
    { register_us_holidays[i] : i \in 1 .. Len(register_us_holidays) }
    \cup { NULL,
           Holiday("Fixed Test", FOSSIL_HOLIDAY_FIXED, 7, 4, 0, 0, 0, ""),
           Holiday("Test Holiday", FOSSIL_HOLIDAY_FIXED, 3, 15, 0, 0, 0, ""),
           Holiday("Black Friday", FOSSIL_HOLIDAY_RELATIVE, 0, 0, 0, 0, 1, "Thanksgiving"),
           Holiday("Christmas Eve", FOSSIL_HOLIDAY_RELATIVE, 0, 0, 0, 0, -1, "Christmas"),
           Holiday("MLK Eve", FOSSIL_HOLIDAY_RELATIVE, 0, 0, 0, 0, -20, "MLK Day"),
           Holiday("Twelfth Night", FOSSIL_HOLIDAY_RELATIVE, 0, 0, 0, 0, 12, "Christmas"),
           Holiday("Orphan", FOSSIL_HOLIDAY_RELATIVE, 0, 0, 0, 0, 1, "Nonexistent Holiday"),
           Holiday("Custom", FOSSIL_HOLIDAY_CUSTOM, 0, 0, -1, 0, 0, "") }
HolidayListSizes == {0, 4, 32}

\* After undefined behaviour *out and the result are whatever the build
\* leaves there.
HolidayDate ==
    /\ op = "init"
    /\ \E h \in HolidayDescriptors, year \in HolidayDateYears :
          LET r == fossil_holiday_date(h, year, other)
          IN  /\ call' = [h |-> h, year |-> year, ub |-> r.ub]
              /\ IF r.ub
                 THEN other' \in {other, r.out} /\ ret' \in {0, -1}
                 ELSE other' = r.out /\ ret' = r.ret
    /\ op' = "holiday_date"
    /\ pre' = dt
    /\ UNCHANGED <<dt, buf, span, env, threads, g_holidays>>

HolidayList ==
    /\ op = "init"
    /\ \E year \in HolidayDateYears, max \in HolidayListSizes :
          LET r == fossil_holiday_list(year, [i \in 1 .. max |-> ZeroDate], max)
          IN  /\ call' = [year |-> year, max |-> max, dates |-> r.dates,
                          count |-> r.count]
              /\ ret' = r.ret
    /\ op' = "holiday_list"
    /\ pre' = dt
    /\ UNCHANGED <<dt, other, buf, span, env, threads, g_holidays>>

InitHolidays ==
    /\ dt = ZeroDate
    /\ other = ZeroDate
    /\ pre = ZeroDate
    /\ op = "init"
    /\ ret = 0
    /\ buf = ""
    /\ env = NoEnv /\ threads = NoThreads
    /\ g_holidays = register_us_holidays
    /\ call = NoCall
    /\ span = NoSpan

NextHolidays == HolidayDate \/ HolidayList

SpecHolidays == InitHolidays /\ [][NextHolidays]_vars

\* C25: for a FOSSIL_HOLIDAY_FIXED descriptor h and every year,
\* fossil_holiday_date(h, year, out) returns 0 and sets out to
\* (year, h.month, h.day).
C25_FixedHolidayDate ==
    op = "holiday_date" /\ call.h # NULL =>
        (call.h.type = FOSSIL_HOLIDAY_FIXED =>
            /\ ret = 0
            /\ other.year = call.year
            /\ other.month = call.h.month
            /\ other.day = call.h.day)

\* C30: for every holiday of the default US table and every year,
\* fossil_holiday_date yields a real calendar date (month in 1..12, day from
\* 1 to that month's length), also for nth = 5 and after the observed-day
\* shift; every date fossil_holiday_list stores is such a date.
RealDate(d) ==
    /\ d.month >= 1 /\ d.month <= 12
    /\ d.day >= 1 /\ d.day <= days_in_month(d.year, d.month)

C30_HolidayDatesAreReal ==
    /\ op = "holiday_date"
         /\ (\E i \in 1 .. Len(register_us_holidays) : call.h = register_us_holidays[i])
         => ret = 0 /\ RealDate(other)
    /\ op = "holiday_list"
         => \A i \in 1 .. call.count : RealDate(call.dates[i])

-----------------------------------------------------------------------------
\* The registry operations.  g_holiday_count is Len(g_holidays).

\* Mutant: the capacity test is lost.
holiday_register_unbounded(h) ==
    IF h = NULL
    THEN [ret |-> -1, registry |-> g_holidays]
    ELSE [ret |-> 0, registry |-> Append(g_holidays, h)]

fossil_holiday_register(h) ==
    IF h = NULL \/ Len(g_holidays) >= FOSSIL_MAX_HOLIDAYS
    THEN [ret |-> -1, registry |-> g_holidays]
    ELSE [ret |-> 0, registry |-> Append(g_holidays, h)]

\* SpecRegistry: registrations and lookups in any order, from the table the
\* constructor stored.  The first RegistryFree registrations choose among a
\* new name and a second descriptor of the same name; later ones repeat one
\* descriptor, so that the table fills up; a null descriptor may come at any
\* time.
RegistryFree == 3
TestHoliday == Holiday("Test Holiday", FOSSIL_HOLIDAY_FIXED, 3, 15, 0, 0, 0, "")
TestHolidayAgain == Holiday("Test Holiday", FOSSIL_HOLIDAY_WEEKDAY, 4, 0, 2, 1, 0, "")
FillerHoliday == Holiday("Filler", FOSSIL_HOLIDAY_FIXED, 8, 8, 0, 0, 0, "")
RegistryNames == {"New Year's Day", "Test Holiday", "Filler", "Nonexistent Holiday"}

RegisterChoices ==
    IF Len(g_holidays) < Len(register_us_holidays) + RegistryFree
    THEN {NULL, TestHoliday, TestHolidayAgain}
    ELSE {NULL, FillerHoliday}

HolidayRegister ==
    /\ Len(g_holidays) <= FOSSIL_MAX_HOLIDAYS
    /\ \E h \in RegisterChoices :
          LET r == fossil_holiday_register(h)
          IN  /\ call' = [h |-> h]
              /\ ret' = r.ret
              /\ g_holidays' = r.registry
    /\ op' = "register"
    /\ UNCHANGED <<dt, other, pre, buf, span, env, threads>>

\* call.out is the caller's pointer, null before the call as in
\* c_test_holiday_register_get.
HolidayGet ==
    /\ \E name \in RegistryNames :
          LET r == fossil_holiday_get(name)
          IN  /\ call' = [name |-> name,
                          out |-> IF r.ret = 0 THEN g_holidays[r.index] ELSE NULL]
              /\ ret' = r.ret
    /\ op' = "get"
    /\ UNCHANGED <<dt, other, pre, buf, span, env, threads, g_holidays>>

InitRegistry == InitHolidays

NextRegistry == HolidayRegister \/ HolidayGet

SpecRegistry == InitRegistry /\ [][NextRegistry]_vars

\* C26: the registry never holds more than 128 entries; a registration
\* returns 0 and appends the descriptor after the existing entries, or
\* returns -1 (null descriptor, or table full) and leaves the registry as it
\* was; no step removes, reorders or overwrites an entry; and
\* fossil_holiday_get(name) returns 0 with an entry of that name exactly when
\* an entry of that name has been registered.
C26_RegistryStep ==
    /\ Len(g_holidays') <= FOSSIL_MAX_HOLIDAYS
    /\ \A i \in 1 .. Len(g_holidays) :
          i <= Len(g_holidays') /\ g_holidays'[i] = g_holidays[i]
    /\ op' = "register" =>
          \/ ret' = 0 /\ g_holidays' = Append(g_holidays, call'.h)
          \/ /\ ret' = -1
             /\ call'.h = NULL \/ Len(g_holidays) = FOSSIL_MAX_HOLIDAYS
             /\ g_holidays' = g_holidays
    /\ op' # "register" => g_holidays' = g_holidays
    /\ op' = "get" =>
          /\ ret' \in {0, -1}
          /\ ret' = 0 <=> \E i \in 1 .. Len(g_holidays) : g_holidays[i].name = call'.name
          /\ ret' = 0 => call'.out # NULL /\ call'.out.name = call'.name

C26_RegistryAppendOnly == [][C26_RegistryStep]_vars

\* The table is full and a registration was refused.
C26_Witness ==
    /\ op = "register" /\ ret = -1 /\ call.h = FillerHoliday
    /\ Len(g_holidays) = FOSSIL_MAX_HOLIDAYS
    /\ g_holidays[Len(register_us_holidays) + 1].name = "Test Holiday"
    /\ g_holidays[FOSSIL_MAX_HOLIDAYS] = FillerHoliday

-----------------------------------------------------------------------------
\* SpecGlob: fossil_pattern_match on short strings and patterns with every
\* kind of pattern character.
GlobStrings == {"", "a", "A", "b", "ab", "aB", "abc", "axc", "ba", "abab", "d"}
GlobPatterns ==
    {"", "a", "AB", "*", "**", "a*", "a**", "*b", "*a*", "a*b*", "a*c", "?",
     "a?c", "??", "[abc]", "[a-c]b", "[A-C]", "a[b-c]*", "[a", "*?"}

PatternMatch ==
    /\ op = "init"
    /\ \E str \in GlobStrings, pattern \in GlobPatterns :
          /\ call' = [str |-> str, pattern |-> pattern]
          /\ ret' = IF fossil_pattern_match(str, pattern) THEN 1 ELSE 0
    /\ op' = "pattern_match"
    /\ pre' = dt
    /\ UNCHANGED <<dt, other, buf, span, env, threads, g_holidays>>

InitGlob ==
    /\ dt = ZeroDate
    /\ other = ZeroDate
    /\ pre = ZeroDate
    /\ op = "init"
    /\ ret = 0
    /\ buf = ""
    /\ env = NoEnv /\ threads = NoThreads /\ g_holidays = NoRegistry
    /\ call = NoCall
    /\ span = NoSpan

NextGlob == PatternMatch

SpecGlob == InitGlob /\ [][NextGlob]_vars

\* C27: fossil_pattern_match(str, pattern) is true exactly when the whole of
\* str matches the glob: `*' stands for any run of characters, the empty run
\* too (also when several `*' are adjacent or end the pattern), `?' for
\* exactly one character, [abc] and [a-z] for one character of the set or
\* range; letters compare without regard to case, in literals and in classes.
toupper(c) ==
    IF \E u \in DOMAIN LowerCase : LowerCase[u] = c
    THEN CHOOSE u \in DOMAIN LowerCase : LowerCase[u] = c
    ELSE c

InClassAnyCase(c, pattern) ==
    \/ fossil_match_char_class(tolower(c), pattern).match
    \/ fossil_match_char_class(toupper(c), pattern).match

RECURSIVE GlobMatches(_, _)
GlobMatches(str, pattern) ==
    IF pattern = "" THEN str = ""
    ELSE IF Ch(pattern, 1) = "*"
    THEN \/ GlobMatches(str, From(pattern, 2))
         \/ str # "" /\ GlobMatches(From(str, 2), pattern)
    ELSE IF str = "" THEN FALSE
    ELSE IF Ch(pattern, 1) = "?"
    THEN GlobMatches(From(str, 2), From(pattern, 2))
    ELSE IF Ch(pattern, 1) = "["
    THEN /\ InClassAnyCase(Ch(str, 1), pattern)
         /\ GlobMatches(From(str, 2),
                From(pattern, fossil_match_char_class(Ch(str, 1), pattern).consumed + 1))
    ELSE /\ tolower(Ch(str, 1)) = tolower(Ch(pattern, 1))
         /\ GlobMatches(From(str, 2), From(pattern, 2))

C27_PatternMatchIsGlob ==
    op = "pattern_match" =>
        ret = (IF GlobMatches(call.str, call.pattern) THEN 1 ELSE 0)

-----------------------------------------------------------------------------
\* fossil_time_span_from_unit (span.c): the rung each unit id names.  The
\* span is cleared, then the one rung and its mask bit are set; an unknown
\* unit id leaves the cleared span with an empty mask.
UnitRung ==
    ("days" :> "days") @@ ("hours" :> "hours") @@ ("minutes" :> "minutes")
    @@ ("seconds" :> "seconds") @@ ("ms" :> "milliseconds")
    @@ ("us" :> "microseconds") @@ ("ns" :> "nanoseconds")
    @@ ("ps" :> "picoseconds") @@ ("fs" :> "femtoseconds")
    @@ ("as" :> "attoseconds") @@ ("zs" :> "zeptoseconds")
    @@ ("ys" :> "yoctoseconds")

fossil_time_span_from_unit(value, unit_id) ==
    LET cleared == make_span(0, 0, 0, 0, 0, 0, 0, {})
    IN  IF unit_id \in DOMAIN UnitRung
        THEN [cleared EXCEPT ![UnitRung[unit_id]] = value,
                             !.precision_mask = {UnitRung[unit_id]}]
        ELSE cleared

\* SpecSpanUnit: spans as from_unit builds them, below, at and above the
\* carry points of their rung, then normalized or converted.
UnitValues == {-90, 0, 1, 59, 60, 999, 1000, 1500, 3600, 86399, 90061}
UnitIds == DOMAIN UnitRung \cup {"weeks"}

InitSpanUnit ==
    /\ \E value \in UnitValues, unit_id \in UnitIds :
          /\ span = fossil_time_span_from_unit(value, unit_id)
          /\ call = [value |-> value, unit_id |-> unit_id]
    /\ dt = ZeroDate
    /\ other = ZeroDate
    /\ pre = NoSpan
    /\ op = "init"
    /\ ret = 0
    /\ buf = ""
    /\ env = NoEnv /\ threads = NoThreads /\ g_holidays = NoRegistry

NextSpanUnit == SpanNormalize \/ SpanToSeconds \/ SpanToNanoseconds

SpecSpanUnit == InitSpanUnit /\ [][NextSpanUnit]_vars

\* C28: fossil_time_span_normalize does not change the value
\* fossil_time_span_to_nanoseconds returns, whatever the mask: also for
\* from_unit(3600, "seconds") followed by normalize.
C28_NormalizeKeepsNanoseconds ==
    op = "span_normalize" =>
        \A wrap \in BOOLEAN :
            fossil_time_span_to_nanoseconds(span, wrap)
                = fossil_time_span_to_nanoseconds(pre, wrap)

-----------------------------------------------------------------------------
\* SpecOrder: two dates with valid fields at the ends of their ranges, in the
\* same zone and with the same sub-second fields, compared and subtracted.
DiffSeconds ==
    /\ op = "init"
    /\ op' = "diff_seconds"
    /\ pre' = dt
    /\ ret' = fossil_time_date_diff_seconds(dt, other)
    /\ UNCHANGED <<dt, other, buf, call, span, env, threads, g_holidays>>

OrderYears == {2023, 2024}
OrderMonths == {1, 2, 3, 12}
OrderDates(zone) ==
    UNION { { [make_date(y, m, d, h, mi, s, zone.ms, zone.ms, zone.ms, zone.mask)
                 EXCEPT !.tz_offset_min = zone.tz_offset_min] :
               d \in {1, 28, days_in_month(y, m)},
               h \in {0, 23}, mi \in {0, 59}, s \in {0, 59} } :
            y \in OrderYears, m \in OrderMonths }
OrderZones ==
    { [tz_offset_min |-> 0, ms |-> 0, mask |-> MASK_YMDHMS],
      [tz_offset_min |-> -300, ms |-> 500, mask |-> MASK_YMD] }

ValidFields(d) ==
    /\ d.month >= 1 /\ d.month <= 12
    /\ d.day >= 1 /\ d.day <= days_in_month(d.year, d.month)
    /\ d.hour >= 0 /\ d.hour <= 23
    /\ d.minute >= 0 /\ d.minute <= 59
    /\ d.second >= 0 /\ d.second <= 59

InitOrder ==
    /\ \E zone \in OrderZones :
          \E a \in OrderDates(zone), b \in OrderDates(zone) :
             /\ ValidFields(a) /\ ValidFields(b)
             /\ dt = a
             /\ other = [b EXCEPT !.precision_mask = MASK_YMDHMS]
    /\ pre = ZeroDate
    /\ op = "init"
    /\ ret = 0
    /\ buf = ""
    /\ env = NoEnv /\ threads = NoThreads /\ g_holidays = NoRegistry
    /\ call = NoCall
    /\ span = NoSpan

NextOrder == Compare \/ DiffSeconds

SpecOrder == InitOrder /\ [][NextOrder]_vars

\* C29: for dates a and b with valid fields (second <= 59), the same
\* tz_offset_min and the same sub-second fields, compare(a, b) < 0 exactly
\* when diff_seconds(a, b) < 0, and compare(a, b) = 0 exactly when
\* diff_seconds(a, b) = 0.
SameZoneAndFraction(a, b) ==
    /\ a.tz_offset_min = b.tz_offset_min
    /\ a.millisecond = b.millisecond
    /\ a.microsecond = b.microsecond
    /\ a.nanosecond = b.nanosecond

C29_CompareAgreesWithDiff ==
    /\ ValidFields(dt) /\ ValidFields(other) /\ SameZoneAndFraction(dt, other)
    /\ op \in {"compare", "diff_seconds"}
    => LET c == IF op = "compare" THEN ret ELSE fossil_time_date_compare(dt, other)
           d == IF op = "diff_seconds" THEN ret
                ELSE fossil_time_date_diff_seconds(dt, other)
       IN  /\ c < 0 <=> SecLess(d, SecZero)
           /\ c = 0 <=> d = SecZero

\* 2023-12-31 23:59:59 against 2024-01-01 00:00:00: smaller by the year
\* alone, one second earlier.
C29_Witness ==
    /\ op = "diff_seconds"
    /\ ret = Sec64(0, -1)
    /\ fossil_time_date_compare(dt, other) = -1
    /\ dt.year < other.year /\ dt.month > other.month /\ dt.second > other.second
    /\ dt.precision_mask # other.precision_mask

=============================================================================
